---- MODULE Spec2Model ----
(***************************************************************************)
(* Verification model of the thermal-printer driver: the CRC8 checksum,    *)
(* the packet framer, the raster line encoder, the job builder, the        *)
(* printer model catalogue, device resolution, discovery, the print-job    *)
(* builder and the serial senders.                                         *)
(*                                                                         *)
(* The encoder is a set of pure functions.  Each function is an operator   *)
(* of this module that computes what the Python code computes; a call is   *)
(* a two-step machine: Init draws the function and its arguments (pc =     *)
(* "call"), the function's action applies it and stores what it returned   *)
(* or the exception it raised (pc = "done").  The senders are loops: their *)
(* local variables are held in frame and each iteration is one step.       *)
(***************************************************************************)
EXTENDS Integers, Sequences, FiniteSets, TLC

VARIABLES pc, op, inp, out, frame

vars == <<pc, op, inp, out, frame>>

(***************************************************************************)
(* Python values.                                                          *)
(***************************************************************************)
\* a function that returned `bytes` (or a list of ints)
Ok(b) == [kind |-> "ok", bytes |-> b]
\* a function that raised: e is the exception class
Raise(e, m) == [kind |-> e, bytes |-> <<>>, msg |-> m]
\* a function that returned a value that is not bytes
OkVal(v) == [kind |-> "ok", bytes |-> <<>>, value |-> v]
NoResult == [kind |-> "none", bytes |-> <<>>]
\* the locals of a function that has none
NoFrame == <<>>

\* x & 0xFF on a Python int (two's complement of unbounded width)
AndFF(x) == x % 256
\* x >> 8
Shr8(x) == x \div 256

\* a ^ b for 0 <= a, b < 16, bit by bit
Xor4(a, b) ==
  ((a + b) % 2)
  + 2 * (((a \div 2) + (b \div 2)) % 2)
  + 4 * (((a \div 4) + (b \div 4)) % 2)
  + 8 * (((a \div 8) + (b \div 8)) % 2)
XorTable == [a \in 0..15 |-> [b \in 0..15 |-> Xor4(a, b)]]
\* a ^ b for 0 <= a, b < 256
Xor(a, b) == 16 * XorTable[a \div 16][b \div 16] + XorTable[a % 16][b % 16]

(***************************************************************************)
(* A Python `for i in range(lo, hi + 1): acc = F(acc, i)` loop.  The range *)
(* is split in halves so that the evaluation depth stays logarithmic; the  *)
(* iterations are applied left to right, each to the result of the one     *)
(* before, exactly as the loop does.                                       *)
(***************************************************************************)
RECURSIVE FoldRange(_, _, _, _)
FoldRange(F(_, _), acc, lo, hi) ==
  IF lo > hi THEN acc
  ELSE IF lo = hi THEN F(acc, lo)
  ELSE LET mid == (lo + hi) \div 2
           left == FoldRange(F, acc, lo, mid)
       IN IF left = left THEN FoldRange(F, left, mid + 1, hi) ELSE acc

(***************************************************************************)
(* CRC8 checksum (print_emx_040256.py).                                    *)
(***************************************************************************)
\* mutant: the polynomial XORed in before the shift
crc8_round_xor_first(crc) ==
  IF (crc \div 128) % 2 = 1
  THEN AndFF(Xor(crc, 7) * 2)
  ELSE AndFF(crc * 2)

\* one round of the table construction: lines 60-63
crc8_round(crc) ==
  IF (crc \div 128) % 2 = 1
  THEN AndFF(Xor(AndFF(crc * 2), 7))
  ELSE AndFF(crc * 2)

build_crc8_table ==
  [value \in 0..255 |->
     FoldRange(LAMBDA crc, r: crc8_round(crc), value, 1, 8)]

CHECKSUM_TABLE == build_crc8_table

crc8(data, initial) ==
  AndFF(FoldRange(LAMBDA crc, i: CHECKSUM_TABLE[AndFF(Xor(crc, data[i]))],
                  initial, 1, Len(data)))

(***************************************************************************)
(* Packet framer and command builders (timiniprint/protocol/commands.py).  *)
(***************************************************************************)
\* crc8.crc8().update(data).digest()[0]: the crc8 package is the same
\* table-driven CRC-8 (polynomial 0x07, initial value 0)
crc8_value(data) == crc8(data, 0)

\* mutant: the length written most significant byte first
make_packet_big_endian(cmd, payload, new_format) ==
  LET length == Len(payload)
      header == <<81, 120, AndFF(cmd), 0, AndFF(Shr8(length)), AndFF(length)>>
      checksum == crc8_value(payload)
      packet == header \o payload \o <<checksum, 255>>
  IN IF new_format THEN <<18>> \o packet ELSE packet

make_packet(cmd, payload, new_format) ==
  LET length == Len(payload)
      header == <<81, 120, AndFF(cmd), 0, AndFF(length), AndFF(Shr8(length))>>
      checksum == crc8_value(payload)
      packet == header \o payload \o <<checksum, 255>>
  IN IF new_format THEN <<18>> \o packet ELSE packet

\* `a += b` on the bytes built so far: the first exception raised, in
\* evaluation order, is the one that propagates
Then(r1, r2) ==
  IF r1.kind # "ok" THEN r1
  ELSE IF r2.kind # "ok" THEN r2
  ELSE Ok(r1.bytes \o r2.bytes)

Max(a, b) == IF a >= b THEN a ELSE b
Min(a, b) == IF a <= b THEN a ELSE b

\* mutant: without the clamp `max(1, min(5, level))`
blackening_cmd_unclamped(level, new_format) ==
  Ok(make_packet(164, <<AndFF(48 + level)>>, new_format))

blackening_cmd(level, new_format) ==
  LET lvl == Max(1, Min(5, level))
  IN Ok(make_packet(164, <<48 + lvl>>, new_format))

\* mutant: the guard `energy < 0`, so that energy 0 emits a packet
energy_cmd_zero_sent(energy, new_format) ==
  IF energy < 0 THEN Ok(<<>>)
  ELSE IF energy > 65535 THEN Raise("OverflowError", "int too big to convert")
  ELSE Ok(make_packet(175, <<energy % 256, energy \div 256>>, new_format))

\* energy.to_bytes(2, "little", signed=False) raises OverflowError when the
\* value does not fit in 2 bytes
energy_cmd(energy, new_format) ==
  IF energy <= 0 THEN Ok(<<>>)
  ELSE IF energy > 65535 THEN Raise("OverflowError", "int too big to convert")
  ELSE Ok(make_packet(175, <<energy % 256, energy \div 256>>, new_format))

print_mode_cmd(is_text, new_format) ==
  Ok(make_packet(190, <<IF is_text THEN 1 ELSE 0>>, new_format))

feed_paper_cmd(speed, new_format) ==
  Ok(make_packet(189, <<AndFF(speed)>>, new_format))

paper_cmd(dpi, new_format) ==
  IF dpi = 300
  THEN Ok(make_packet(161, <<72, 0>>, new_format))
  ELSE Ok(make_packet(161, <<48, 0>>, new_format))

dev_state_cmd(new_format) == Ok(make_packet(163, <<0>>, new_format))

(***************************************************************************)
(* Raster line encoder (timiniprint/protocol/encoding.py).  Pixels are 0   *)
(* or 1, so (color << 7) | count is color * 128 + count for count < 128.   *)
(***************************************************************************)
RECURSIVE encode_run(_, _)
encode_run(color, count) ==
  IF count > 127 THEN <<color * 128 + 127>> \o encode_run(color, count - 127)
  ELSE IF count > 0 THEN <<color * 128 + count>>
  ELSE <<>>

\* the body of `for pix in line[1:]`; st holds the loop's local variables
rle_step(st, pix) ==
  LET hb == IF pix # 0 THEN 1 ELSE st.has_black
  IN IF pix = st.prev
     THEN [st EXCEPT !.has_black = hb, !.count = st.count + 1]
     ELSE [runs |-> st.runs \o encode_run(st.prev, st.count),
           prev |-> pix, count |-> 1, has_black |-> hb]

\* mutant: without the `if not runs` fallback, a line with no black pixel
\* is encoded as nothing
rle_encode_line_no_fallback(line) ==
  IF line = <<>> THEN <<>>
  ELSE LET st0 == [runs |-> <<>>, prev |-> line[1], count |-> 1,
                   has_black |-> IF line[1] # 0 THEN 1 ELSE 0]
           st == FoldRange(LAMBDA s, i: rle_step(s, line[i]), st0, 2, Len(line))
       IN IF st.has_black # 0
          THEN st.runs \o encode_run(st.prev, st.count)
          ELSE st.runs

\* mutant: `if prev:` for `if has_black:`, so that a trailing white run is
\* dropped
rle_encode_line_black_tail_only(line) ==
  IF line = <<>> THEN <<>>
  ELSE LET st0 == [runs |-> <<>>, prev |-> line[1], count |-> 1,
                   has_black |-> IF line[1] # 0 THEN 1 ELSE 0]
           st == FoldRange(LAMBDA s, i: rle_step(s, line[i]), st0, 2, Len(line))
           r1 == IF st.prev # 0
                 THEN st.runs \o encode_run(st.prev, st.count)
                 ELSE st.runs
       IN IF r1 = <<>> THEN r1 \o encode_run(st.prev, st.count) ELSE r1

rle_encode_line(line) ==
  IF line = <<>> THEN <<>>
  ELSE LET st0 == [runs |-> <<>>, prev |-> line[1], count |-> 1,
                   has_black |-> IF line[1] # 0 THEN 1 ELSE 0]
           st == FoldRange(LAMBDA s, i: rle_step(s, line[i]), st0, 2, Len(line))
           r1 == IF st.has_black # 0
                 THEN st.runs \o encode_run(st.prev, st.count)
                 ELSE st.runs
       IN IF r1 = <<>> THEN r1 \o encode_run(st.prev, st.count) ELSE r1

\* one byte of pack_line: the chunk line[i : i + 8], padded with zeros
\* mutant: the flag ignored, `1 << (7 - bit)` on both branches
pack_byte_msb_only(line, i, lsb_first) ==
  LET pix(bit) == IF i + bit + 1 <= Len(line) THEN line[i + bit + 1] ELSE 0
  IN FoldRange(LAMBDA value, bit:
                 IF pix(bit) # 0 THEN value + 2 ^ (7 - bit) ELSE value,
               0, 0, 7)

pack_byte(line, i, lsb_first) ==
  LET pix(bit) == IF i + bit + 1 <= Len(line) THEN line[i + bit + 1] ELSE 0
  IN FoldRange(LAMBDA value, bit:
                 IF pix(bit) # 0
                 THEN value + (IF lsb_first THEN 2 ^ bit ELSE 2 ^ (7 - bit))
                 ELSE value,
               0, 0, 7)

pack_line(line, lsb_first) ==
  [k \in 1..((Len(line) + 7) \div 8) |-> pack_byte(line, (k - 1) * 8, lsb_first)]

\* a // b of Python (floor division), b # 0
FloorDiv(a, b) == IF b > 0 THEN a \div b ELSE (0 - a) \div (0 - b)

\* mutant: `<` for `<=`, so that a tie goes to the raw packet
line_packet_tie_raw(line, width_bytes, compress, lsb_first, new_format) ==
  IF compress
  THEN LET rle == rle_encode_line(line)
       IN IF Len(rle) < width_bytes
          THEN make_packet(191, rle, new_format)
          ELSE make_packet(162, pack_line(line, lsb_first), new_format)
  ELSE make_packet(162, pack_line(line, lsb_first), new_format)

\* the packet of one row: lines 80-89
line_packet(line, width_bytes, compress, lsb_first, new_format) ==
  IF compress
  THEN LET rle == rle_encode_line(line)
       IN IF Len(rle) <= width_bytes
          THEN make_packet(191, rle, new_format)
          ELSE make_packet(162, pack_line(line, lsb_first), new_format)
  ELSE make_packet(162, pack_line(line, lsb_first), new_format)

\* mutant: the feed decided on the 0-based row index
line_step_feed_on_index(acc, row, pixels, width, speed, compress, lsb_first, new_format, line_feed_every) ==
  LET line == SubSeq(pixels, row * width + 1, (row + 1) * width)
      pkt == line_packet(line, width \div 8, compress, lsb_first, new_format)
  IN IF line_feed_every # 0 /\ row % line_feed_every = 0
     THEN acc \o pkt \o feed_paper_cmd(speed, new_format).bytes
     ELSE acc \o pkt

\* the body of `for row in range(height)`: lines 79-91
line_step(acc, row, pixels, width, speed, compress, lsb_first, new_format, line_feed_every) ==
  LET line == SubSeq(pixels, row * width + 1, (row + 1) * width)
      pkt == line_packet(line, width \div 8, compress, lsb_first, new_format)
  IN IF line_feed_every # 0 /\ (row + 1) % line_feed_every = 0
     THEN acc \o pkt \o feed_paper_cmd(speed, new_format).bytes
     ELSE acc \o pkt

\* mutant: the width check left out
build_line_packets_unchecked(pixels, width, speed, compress, lsb_first, new_format, line_feed_every) ==
  IF width = 0 THEN Raise("ZeroDivisionError", "integer division or modulo by zero")
  ELSE LET height == FloorDiv(Len(pixels), width)
       IN Ok(FoldRange(LAMBDA acc, row:
                         line_step(acc, row, pixels, width, speed, compress,
                                   lsb_first, new_format, line_feed_every),
                       <<>>, 0, height - 1))

build_line_packets(pixels, width, speed, compress, lsb_first, new_format, line_feed_every) ==
  IF width % 8 # 0 THEN Raise("ValueError", "Width must be divisible by 8")
  ELSE IF width = 0 THEN Raise("ZeroDivisionError", "integer division or modulo by zero")
  ELSE LET height == FloorDiv(Len(pixels), width)
       IN Ok(FoldRange(LAMBDA acc, row:
                         line_step(acc, row, pixels, width, speed, compress,
                                   lsb_first, new_format, line_feed_every),
                       <<>>, 0, height - 1))

(***************************************************************************)
(* Job builder (timiniprint/protocol/job.py, protocol/types.py).           *)
(***************************************************************************)
\* line_feed_every=200 in build_print_payload
LINE_FEED_EVERY == 200

build_print_payload(pixels, width, is_text, speed, energy, compress, lsb_first, new_format) ==
  Then(Then(Then(energy_cmd(energy, new_format),
                 print_mode_cmd(is_text, new_format)),
            feed_paper_cmd(speed, new_format)),
       build_line_packets(pixels, width, speed, compress, lsb_first, new_format,
                          LINE_FEED_EVERY))

\* mutant: the paper size sent once
build_job_one_paper_cmd(pixels, width, is_text, speed, energy, blackening, compress, lsb_first, new_format, feed_padding, dev_dpi) ==
  Then(Then(Then(Then(Then(
    blackening_cmd(blackening, new_format),
    build_print_payload(pixels, width, is_text, speed, energy, compress,
                        lsb_first, new_format)),
    feed_paper_cmd(feed_padding, new_format)),
    paper_cmd(dev_dpi, new_format)),
    feed_paper_cmd(feed_padding, new_format)),
    dev_state_cmd(new_format))

build_job(pixels, width, is_text, speed, energy, blackening, compress, lsb_first, new_format, feed_padding, dev_dpi) ==
  Then(Then(Then(Then(Then(Then(
    blackening_cmd(blackening, new_format),
    build_print_payload(pixels, width, is_text, speed, energy, compress,
                        lsb_first, new_format)),
    feed_paper_cmd(feed_padding, new_format)),
    paper_cmd(dev_dpi, new_format)),
    paper_cmd(dev_dpi, new_format)),
    feed_paper_cmd(feed_padding, new_format)),
    dev_state_cmd(new_format))

\* Raster.validate: returns None, or raises ValueError
Raster_validate(pixels, width) ==
  IF width <= 0 THEN Raise("ValueError", "Width must be greater than zero")
  ELSE IF Len(pixels) % width # 0 THEN Raise("ValueError", "Pixels length must be a multiple of width")
  ELSE Ok(<<>>)

build_print_payload_from_raster(pixels, width, is_text, speed, energy, compress, lsb_first, new_format) ==
  LET v == Raster_validate(pixels, width)
  IN IF v.kind # "ok" THEN v
     ELSE build_print_payload(pixels, width, is_text, speed, energy, compress,
                              lsb_first, new_format)

build_job_from_raster(pixels, width, is_text, speed, energy, blackening, compress, lsb_first, new_format, feed_padding, dev_dpi) ==
  LET v == Raster_validate(pixels, width)
  IN IF v.kind # "ok" THEN v
     ELSE build_job(pixels, width, is_text, speed, energy, blackening, compress,
                    lsb_first, new_format, feed_padding, dev_dpi)

(***************************************************************************)
(* Printer model catalogue (timiniprint/models.py).  A string is a         *)
(* sequence of characters; a PrinterModel is reduced to the two fields     *)
(* detection reads, model_no and head_name.                                *)
(***************************************************************************)
\* str.lower() on one character
LowerChar(c) ==
  CASE c = "A" -> "a" [] c = "E" -> "e" [] c = "G" -> "g" [] c = "M" -> "m"
    [] c = "T" -> "t" [] c = "X" -> "x" [] c = "Z" -> "z" [] OTHER -> c
lower(str) == [i \in 1..Len(str) |-> LowerChar(str[i])]
\* str.startswith(prefix)
startswith(str, prefix) ==
  Len(prefix) <= Len(str) /\ SubSeq(str, 1, Len(prefix)) = prefix

\* mutant: the first head name that matches is kept
head_name_step_first(models, name_lower, match, i) ==
  IF models[i].head_name # <<>> /\ startswith(name_lower, lower(models[i].head_name))
  THEN IF match = 0 THEN i ELSE match
  ELSE match

\* mutant: `>=` for `>`, so that among head names of equal length the last
\* entry wins
head_name_step_tie_last(models, name_lower, match, i) ==
  IF models[i].head_name # <<>> /\ startswith(name_lower, lower(models[i].head_name))
  THEN IF match = 0 \/ Len(models[i].head_name) >= Len(models[match].head_name)
       THEN i ELSE match
  ELSE match

\* the body of the first loop: lines 80-82; match is an index into models,
\* 0 for None
head_name_step(models, name_lower, match, i) ==
  IF models[i].head_name # <<>> /\ startswith(name_lower, lower(models[i].head_name))
  THEN IF match = 0 \/ Len(models[i].head_name) > Len(models[match].head_name)
       THEN i ELSE match
  ELSE match

\* the body of the second loop: lines 86-88
model_no_step(models, name_lower, match, i) ==
  IF startswith(name_lower, lower(models[i].model_no))
  THEN IF match = 0 \/ Len(models[i].model_no) > Len(models[match].model_no)
       THEN i ELSE match
  ELSE match

NoModel == [found |-> FALSE]
FoundModel(m) == [found |-> TRUE, model |-> m]

detect_from_device_name(models, name) ==
  IF name = <<>> THEN NoModel
  ELSE LET name_lower == lower(name)
           m1 == FoldRange(LAMBDA match, i: head_name_step(models, name_lower, match, i),
                           0, 1, Len(models))
       IN IF m1 # 0 THEN FoundModel(models[m1])
          ELSE LET m2 == FoldRange(LAMBDA match, i: model_no_step(models, name_lower, match, i),
                                   0, 1, Len(models))
               IN IF m2 # 0 THEN FoundModel(models[m2]) ELSE NoModel

(***************************************************************************)
(* The calls that are checked.                                             *)
(***************************************************************************)
\* payloads of every length up to MaxPayloadLen over PayloadBytes
MaxPayloadLen == 2
\* rasters of every height up to MaxRows
MaxRows == 2
\* tall rasters reach MaxFeeds multiples of LINE_FEED_EVERY rows
MaxFeeds == 2
\* every 0/1 line of up to MaxLineLen pixels
MaxLineLen == 6

SeqsUpTo(S, n) == UNION {[1..k -> S] : k \in 0..n}

PayloadBytes == {0, 1, 128, 255}
\* a payload of n bytes whose i-th byte is (7 * i) mod 256
LongPayload(n) == [i \in 1..n |-> (7 * i) % 256]
Payloads ==
  SeqsUpTo(PayloadBytes, MaxPayloadLen)
  \cup {LongPayload(n) : n \in {48, 255, 256, 257}}

\* the lengths at which the 16-bit length field wraps
WrapPayloads == {LongPayload(n) : n \in {65535, 65536}}
MakePacketCalls ==
  {[op |-> "make_packet", args |-> [cmd |-> c, payload |-> p, new_format |-> f]] :
     c \in {0, 162, 191, 255}, p \in Payloads, f \in BOOLEAN}
  \cup {[op |-> "make_packet", args |-> [cmd |-> 162, payload |-> p, new_format |-> FALSE]] :
         p \in WrapPayloads}

Energies == {0 - 5, 0, 1, 255, 256, 5000, 8000, 65535, 65536, 70000}
EnergyCalls ==
  {[op |-> "energy_cmd", args |-> [energy |-> e, new_format |-> f]] :
     e \in Energies, f \in BOOLEAN}

CrcData ==
  {<<b>> : b \in 0..255}
  \cup SeqsUpTo(PayloadBytes, MaxPayloadLen + 1)
  \cup {LongPayload(n) : n \in {48, 300}}
CrcCalls ==
  {[op |-> f, args |-> [data |-> d]] : f \in {"crc8", "crc8_value"}, d \in CrcData}

FrameCalls == MakePacketCalls \cup EnergyCalls \cup CrcCalls

\* rows: all white, all black, alternating pixels, black left half,
\* alternating blocks of 8 pixels
RowPix(kind, i, w) ==
  CASE kind = "white" -> 0
    [] kind = "black" -> 1
    [] kind = "alt" -> i % 2
    [] kind = "half" -> IF 2 * i <= w THEN 1 ELSE 0
    [] kind = "blocks" -> ((i - 1) \div 8) % 2
\* the row-major pixels of the raster whose rows are the kinds ks
RasterOf(ks, w) ==
  [i \in 1..(Len(ks) * w) |-> RowPix(ks[((i - 1) \div w) + 1], ((i - 1) % w) + 1, w)]
Uniform(kind, h) == [r \in 1..h |-> kind]

Kinds == {"white", "black", "alt", "half"}
SmallRasters ==
  {[pixels |-> RasterOf(ks, w), width |-> w] :
     ks \in SeqsUpTo(Kinds, MaxRows), w \in {8, 16}}
\* one row of each kind at the printer's width, and the 8 black rows of the
\* end-to-end example
WideRasters ==
  {[pixels |-> RasterOf(<<k>>, 384), width |-> 384] : k \in Kinds \cup {"blocks"}}
  \cup {[pixels |-> RasterOf(Uniform("black", 8), 384), width |-> 384]}
\* heights around the multiples of LINE_FEED_EVERY
TallHeights ==
  {k * LINE_FEED_EVERY + d : k \in 1..MaxFeeds, d \in {0 - 1, 0, 1}}
TallRasters ==
  {[pixels |-> RasterOf(Uniform(k, h), 8), width |-> 8] :
     k \in {"black", "half"}, h \in TallHeights}
\* a pixel count that is no multiple of the width
RaggedRasters ==
  {[pixels |-> [i \in 1..n |-> i % 2], width |-> 8] : n \in {4, 12}}
\* widths that are no positive multiple of 8
BadWidthRasters ==
  {[pixels |-> [i \in 1..n |-> 1], width |-> w] :
     n \in {0, 7, 24}, w \in {7, 12, 0 - 4, 0, 0 - 8}}

LineCalls(R, C, L, F, E) ==
  {[op |-> "build_line_packets",
    args |-> [pixels |-> r.pixels, width |-> r.width, speed |-> 10,
              compress |-> c, lsb_first |-> l, new_format |-> f,
              line_feed_every |-> e]] :
     r \in R, c \in C, l \in L, f \in F, e \in E}
BuildLinePacketsCalls ==
  LineCalls(SmallRasters, BOOLEAN, BOOLEAN, BOOLEAN, {0, 2, LINE_FEED_EVERY})
  \cup LineCalls(WideRasters, BOOLEAN, BOOLEAN, {FALSE}, {LINE_FEED_EVERY})
  \cup LineCalls(TallRasters, {TRUE}, {TRUE}, {FALSE}, {LINE_FEED_EVERY})
  \cup LineCalls(RaggedRasters \cup BadWidthRasters, BOOLEAN, {TRUE}, {FALSE},
                 {LINE_FEED_EVERY})

\* a line of a pixels of colour c followed by b pixels of the other colour
TwoRuns(c, a, b) == [i \in 1..(a + b) |-> IF i <= a THEN c ELSE 1 - c]
Lines ==
  SeqsUpTo({0, 1}, MaxLineLen)
  \cup {TwoRuns(c, a, 0) : c \in {0, 1}, a \in {127, 128, 254, 255, 381, 384}}
  \cup {TwoRuns(c, a, b) : c \in {0, 1}, a \in {1, 127, 128, 200}, b \in {1, 127, 128, 200}}
RleCalls == {[op |-> "rle_encode_line", args |-> [line |-> l]] : l \in Lines}

EncoderCalls == BuildLinePacketsCalls \cup RleCalls

\* model-independent settings of a job: the defaults, and values that
\* need clamping or masking
Settings ==
  {[speed |-> 10, blackening |-> 3, feed_padding |-> 12, dev_dpi |-> 200, lsb_first |-> TRUE],
   [speed |-> 266, blackening |-> 9, feed_padding |-> 0, dev_dpi |-> 300, lsb_first |-> FALSE]}
DefaultSettings == {x \in Settings : x.speed = 10}
JobArgs(r, t, e, c, f, x) ==
  [pixels |-> r.pixels, width |-> r.width, is_text |-> t, speed |-> x.speed,
   energy |-> e, blackening |-> x.blackening, compress |-> c,
   lsb_first |-> x.lsb_first, new_format |-> f,
   feed_padding |-> x.feed_padding, dev_dpi |-> x.dev_dpi]
\* every combination of the parameters
FullCalls(f, R) ==
  {[op |-> f, args |-> JobArgs(r, t, e, c, n, x)] :
     r \in R, t \in BOOLEAN, e \in {0 - 5, 0, 5000, 65535, 65536},
     c \in BOOLEAN, n \in BOOLEAN, x \in Settings}
\* the default settings, with and without energy and marker
FewCalls(f, R) ==
  {[op |-> f, args |-> JobArgs(r, FALSE, e, TRUE, n, x)] :
     r \in R, e \in {0, 5000}, n \in BOOLEAN, x \in DefaultSettings}
\* an energy that fits in 16 bits and one that does not
EnergyRangeCalls(f, R) ==
  {[op |-> f, args |-> JobArgs(r, FALSE, e, c, FALSE, x)] :
     r \in R, e \in {5000, 65536}, c \in BOOLEAN, x \in DefaultSettings}

JobRasters ==
  {[pixels |-> RasterOf(ks, 8), width |-> 8] :
     ks \in SeqsUpTo({"white", "alt", "half"}, MaxRows)}
  \cup {[pixels |-> RasterOf(<<"half", "alt">>, 16), width |-> 16]}
TallJobRasters ==
  {[pixels |-> RasterOf(Uniform("black", h), 8), width |-> 8] : h \in TallHeights}
OneRowRasters == {r \in JobRasters : Len(r.pixels) <= 16}
InvalidRasters == RaggedRasters \cup BadWidthRasters

BuildJobCalls ==
  FullCalls("build_job", JobRasters)
  \cup FewCalls("build_job", WideRasters \cup TallJobRasters)
  \cup EnergyRangeCalls("build_job", InvalidRasters)
BuildPrintPayloadCalls ==
  FewCalls("build_print_payload", JobRasters \cup TallJobRasters)
  \cup EnergyRangeCalls("build_print_payload", InvalidRasters)
FromRasterCalls ==
  UNION {FewCalls(f, OneRowRasters) \cup EnergyRangeCalls(f, InvalidRasters \cup OneRowRasters) :
           f \in {"build_job_from_raster", "build_print_payload_from_raster"}}
ValidateCalls ==
  {[op |-> "Raster.validate", args |-> r] :
     r \in SmallRasters \cup WideRasters \cup InvalidRasters}

JobLineCalls ==
  LineCalls(InvalidRasters \cup OneRowRasters, BOOLEAN, {TRUE}, {FALSE}, {LINE_FEED_EVERY})

JobCalls ==
  BuildJobCalls \cup BuildPrintPayloadCalls \cup FromRasterCalls
  \cup ValidateCalls \cup JobLineCalls

\* registries of up to MaxModels distinct entries, in every order
MaxModels == 3
ModelPool ==
  {[model_no |-> <<"A", "1">>, head_name |-> <<"E", "M">>],
   [model_no |-> <<"A", "2">>, head_name |-> <<"E", "M", "X", "1">>],
   [model_no |-> <<"E", "M", "X", "1", "0", "0">>, head_name |-> <<>>],
   [model_no |-> <<"e", "m">>, head_name |-> <<"e", "m">>],
   [model_no |-> <<"G", "T", "0", "1">>, head_name |-> <<"Z", "Z">>],
   [model_no |-> <<"G", "T">>, head_name |-> <<>>],
   [model_no |-> <<"g", "t">>, head_name |-> <<>>]}
Registries ==
  {r \in SeqsUpTo(ModelPool, MaxModels) :
     \A i, j \in 1..Len(r) : i # j => r[i] # r[j]}
DeviceNames ==
  {<<>>,
   <<"E", "M", "X", "1", "0", "0", "0">>,
   <<"e", "m", "x", "1", "0", "0", "0">>,
   <<"E", "m">>,
   <<"g", "t", "0", "1", "-", "A">>,
   <<"G", "T", "9">>,
   <<"X", "1">>}
DetectCalls ==
  {[op |-> "detect_from_device_name", args |-> [models |-> r, name |-> n]] :
     r \in Registries, n \in DeviceNames}

(***************************************************************************)
(* The machine: one call of one function.                                  *)
(***************************************************************************)
InitCalls(Calls) ==
  /\ pc = "call"
  /\ out = NoResult
  /\ frame = NoFrame
  /\ \E c \in Calls : op = c.op /\ inp = c.args

Return(r) == pc' = "done" /\ out' = r /\ UNCHANGED <<op, inp, frame>>

MakePacket ==
  /\ pc = "call" /\ op = "make_packet"
  /\ Return(Ok(make_packet(inp.cmd, inp.payload, inp.new_format)))

EnergyCmd ==
  /\ pc = "call" /\ op = "energy_cmd"
  /\ Return(energy_cmd(inp.energy, inp.new_format))

Crc8 ==
  /\ pc = "call" /\ op = "crc8"
  /\ Return(OkVal(crc8(inp.data, 0)))

Crc8Value ==
  /\ pc = "call" /\ op = "crc8_value"
  /\ Return(OkVal(crc8_value(inp.data)))

\* checksum, framer and command builders
InitFrame == InitCalls(FrameCalls)
NextFrame == MakePacket \/ EnergyCmd \/ Crc8 \/ Crc8Value
SpecFrame == InitFrame /\ [][NextFrame]_vars

RleEncodeLine ==
  /\ pc = "call" /\ op = "rle_encode_line"
  /\ Return(Ok(rle_encode_line(inp.line)))

BuildLinePackets ==
  /\ pc = "call" /\ op = "build_line_packets"
  /\ Return(build_line_packets(inp.pixels, inp.width, inp.speed, inp.compress,
                               inp.lsb_first, inp.new_format, inp.line_feed_every))

\* raster line encoder
InitEncoder == InitCalls(EncoderCalls)
NextEncoder == RleEncodeLine \/ BuildLinePackets
SpecEncoder == InitEncoder /\ [][NextEncoder]_vars

BuildPrintPayload ==
  /\ pc = "call" /\ op = "build_print_payload"
  /\ Return(build_print_payload(inp.pixels, inp.width, inp.is_text, inp.speed,
                                inp.energy, inp.compress, inp.lsb_first,
                                inp.new_format))

BuildJob ==
  /\ pc = "call" /\ op = "build_job"
  /\ Return(build_job(inp.pixels, inp.width, inp.is_text, inp.speed, inp.energy,
                      inp.blackening, inp.compress, inp.lsb_first,
                      inp.new_format, inp.feed_padding, inp.dev_dpi))

RasterValidate ==
  /\ pc = "call" /\ op = "Raster.validate"
  /\ Return(Raster_validate(inp.pixels, inp.width))

BuildPrintPayloadFromRaster ==
  /\ pc = "call" /\ op = "build_print_payload_from_raster"
  /\ Return(build_print_payload_from_raster(inp.pixels, inp.width, inp.is_text,
                                            inp.speed, inp.energy, inp.compress,
                                            inp.lsb_first, inp.new_format))

BuildJobFromRaster ==
  /\ pc = "call" /\ op = "build_job_from_raster"
  /\ Return(build_job_from_raster(inp.pixels, inp.width, inp.is_text, inp.speed,
                                  inp.energy, inp.blackening, inp.compress,
                                  inp.lsb_first, inp.new_format,
                                  inp.feed_padding, inp.dev_dpi))

\* job builder
InitJob == InitCalls(JobCalls)
NextJob ==
  \/ BuildLinePackets
  \/ BuildPrintPayload
  \/ BuildJob
  \/ RasterValidate
  \/ BuildPrintPayloadFromRaster
  \/ BuildJobFromRaster
SpecJob == InitJob /\ [][NextJob]_vars

DetectFromDeviceName ==
  /\ pc = "call" /\ op = "detect_from_device_name"
  /\ Return(OkVal(detect_from_device_name(inp.models, inp.name)))

\* model catalogue
InitModels == InitCalls(DetectCalls)
NextModels == DetectFromDeviceName
SpecModels == InitModels /\ [][NextModels]_vars

Done(f) == pc = "done" /\ op = f

(***************************************************************************)
(* Reading a packet back, as a receiver does: the marker is stripped when  *)
(* the first byte is 0x12, the last two bytes are the checksum and the     *)
(* sentinel, the rest is header and payload.                               *)
(***************************************************************************)
HasMarker(b) == Len(b) > 0 /\ b[1] = 18
ParsePacket(b) ==
  LET p == IF HasMarker(b) THEN Tail(b) ELSE b
  IN [marker |-> HasMarker(b),
      sync |-> <<p[1], p[2]>>,
      cmd |-> p[3],
      reserved |-> p[4],
      length |-> p[5] + 256 * p[6],
      payload |-> SubSeq(p, 7, Len(p) - 2),
      checksum |-> p[Len(p) - 1],
      sentinel |-> p[Len(p)]]

\* the CRC-8 of the claim: per byte, XOR the byte in, then 8 rounds of shift
\* left, XOR 0x07 when the bit shifted out was 1, masked to 8 bits
CrcRound(c) == IF c >= 128 THEN Xor((2 * c) % 256, 7) ELSE (2 * c) % 256
CrcByte(c, byte) == CrcRound(CrcRound(CrcRound(CrcRound(CrcRound(CrcRound(CrcRound(CrcRound(Xor(c, byte)))))))))
CrcBitwise(data) == FoldRange(LAMBDA c, i: CrcByte(c, data[i]), 0, 1, Len(data))

\* what C1 says of a packet: marker iff dialect, then the fixed layout
PacketMatches(b, cmd, payload, new_format) ==
  LET p == ParsePacket(b)
  IN /\ Len(b) = Len(payload) + 8 + (IF new_format THEN 1 ELSE 0)
     /\ p.marker = new_format
     /\ p.sync = <<81, 120>>
     /\ p.cmd = cmd
     /\ p.reserved = 0
     /\ p.length = Len(payload)
     /\ p.payload = payload
     /\ p.checksum = CrcBitwise(payload)
     /\ p.sentinel = 255


(***************************************************************************)
(* C1 - make_packet: layout and round trip.                                *)
(***************************************************************************)
\* C1 as stated: for any command id and payload the emitted bytes are the
\* marker (iff the dialect flag is set), 0x51, 0x78, the command id, 0x00,
\* the payload length as little-endian 16 bits, the payload, its CRC8 and
\* 0xFF, so parsing recovers command id, length, payload and checksum.
C1_AnyPayload ==
  Done("make_packet") =>
    PacketMatches(out.bytes, inp.cmd, inp.payload, inp.new_format)

\* C1, amended: the same for every payload shorter than 65536 bytes; from
\* 65536 bytes on the length field holds the length modulo 65536 and no
\* longer equals the payload length.
C1_RoundTrip ==
  Done("make_packet") =>
    /\ Len(inp.payload) < 65536 =>
         PacketMatches(out.bytes, inp.cmd, inp.payload, inp.new_format)
    /\ Len(inp.payload) >= 65536 =>
         /\ ParsePacket(out.bytes).length = Len(inp.payload) % 65536
         /\ ParsePacket(out.bytes).payload = inp.payload

\* a marked packet whose length needs both length bytes has been emitted
C1_Witness ==
  /\ Done("make_packet")
  /\ inp.new_format
  /\ Len(inp.payload) = 257
  /\ out.bytes[1] = 18 /\ out.bytes[6] = 1 /\ out.bytes[7] = 1

(***************************************************************************)
(* C8 - energy_cmd.                                                        *)
(***************************************************************************)
\* the one packet 0xAF whose 2-byte payload is the value, little-endian
IsEnergyPacket(r, value, new_format) ==
  /\ r.kind = "ok"
  /\ Len(r.bytes) = 10 + (IF new_format THEN 1 ELSE 0)
  /\ LET p == ParsePacket(r.bytes)
     IN /\ p.marker = new_format
        /\ p.cmd = 175
        /\ p.length = 2
        /\ Len(p.payload) = 2
        /\ p.payload[1] + 256 * p.payload[2] = value
        /\ p.checksum = CrcBitwise(p.payload)

\* C8 as stated: energy(value) returns zero bytes iff value <= 0, and for
\* every value > 0 exactly one packet 0xAF carrying the value as a
\* little-endian unsigned 16-bit integer.
C8_EveryPositive ==
  Done("energy_cmd") =>
    /\ (out = Ok(<<>>)) <=> (inp.energy <= 0)
    /\ inp.energy > 0 => IsEnergyPacket(out, inp.energy, inp.new_format)

\* C8, amended: zero bytes iff value <= 0; exactly one packet 0xAF with the
\* value as little-endian uint16 for every value in 1..65535; for a value
\* above 65535 the call raises OverflowError and returns nothing.
C8_Energy ==
  Done("energy_cmd") =>
    /\ (out = Ok(<<>>)) <=> (inp.energy <= 0)
    /\ (inp.energy > 0 /\ inp.energy <= 65535) =>
         IsEnergyPacket(out, inp.energy, inp.new_format)
    /\ inp.energy > 65535 => out = Raise("OverflowError", "int too big to convert")

\* the energies of the spec's examples and a two-byte value have been encoded
C8_Witness ==
  /\ Done("energy_cmd")
  /\ inp.energy = 5000
  /\ out.kind = "ok"
  /\ ParsePacket(out.bytes).payload = <<136, 19>>

(***************************************************************************)
(* C9 - CRC8.                                                              *)
(***************************************************************************)
\* C9: the table-driven checksum equals the bit-by-bit MSB-first CRC with
\* polynomial 0x07 for every byte sequence, lies in 0..255, and is 0 for
\* the empty payload.
C9_Crc8 ==
  (Done("crc8") \/ Done("crc8_value")) =>
    /\ out.kind = "ok"
    /\ out.value \in 0..255
    /\ out.value = CrcBitwise(inp.data)
    /\ inp.data = <<>> => out.value = 0

\* a checksum of a multi-byte payload has been computed (CRC-8 of 01 80)
C9_Witness ==
  /\ Done("crc8")
  /\ inp.data = <<1, 128>>
  /\ out.value = CrcBitwise(<<1, 128>>)
  /\ out.value # 0

(***************************************************************************)
(* Reading a byte stream back as a sequence of packets: each packet is     *)
(* found from the length field of the one before.  The stream is rejected  *)
(* (ok = FALSE) when a packet lacks its sync bytes, its reserved zero, its *)
(* sentinel or its checksum.                                               *)
(***************************************************************************)
ParseStep(b, st) ==
  IF ~st.ok \/ st.pos > Len(b) THEN st
  ELSE LET m == IF b[st.pos] = 18 THEN 1 ELSE 0
           h == st.pos + m
       IN IF h + 7 > Len(b) THEN [st EXCEPT !.ok = FALSE]
          ELSE LET n == b[h + 4] + 256 * b[h + 5]
                   last == h + 7 + n
               IN IF last > Len(b) THEN [st EXCEPT !.ok = FALSE]
                  ELSE LET payload == SubSeq(b, h + 6, h + 5 + n)
                           good == /\ b[h] = 81 /\ b[h + 1] = 120 /\ b[h + 3] = 0
                                   /\ b[last] = 255
                                   /\ b[last - 1] = CrcBitwise(payload)
                       IN [pos |-> last + 1,
                           ok |-> good,
                           pkts |-> Append(st.pkts, [marker |-> (m = 1),
                                                     cmd |-> b[h + 2],
                                                     payload |-> payload])]

\* every packet is at least 8 bytes long, so Len(b) \div 8 + 1 steps read all
ParsePackets(b) ==
  FoldRange(LAMBDA st, i: ParseStep(b, st),
            [pos |-> 1, ok |-> TRUE, pkts |-> <<>>], 1, (Len(b) \div 8) + 1)

(***************************************************************************)
(* The run-length encoding of the claims, read off the line position by    *)
(* position: an entry starts at every pixel whose distance from the start  *)
(* of its run is a multiple of 127, and counts the pixels up to the next   *)
(* entry start.                                                            *)
(***************************************************************************)
RunStart(line, i) ==
  LET S == {j \in 1..i : j = 1 \/ line[j] # line[j - 1]}
  IN CHOOSE j \in S : \A k \in S : k <= j
EntryStarts(line) == {i \in 1..Len(line) : (i - RunStart(line, i)) % 127 = 0}
ExpectedRle(line) ==
  LET P == EntryStarts(line)
      nth(k) == CHOOSE q \in P : Cardinality({r \in P : r < q}) = k - 1
      stop(q) == IF \E r \in P : r > q
                 THEN CHOOSE r \in P : r > q /\ \A t \in P : t > q => r <= t
                 ELSE Len(line) + 1
  IN [k \in 1..Cardinality(P) |-> 128 * line[nth(k)] + (stop(nth(k)) - nth(k))]

(***************************************************************************)
(* C4 - rle_encode_line: shape of the entries.                             *)
(***************************************************************************)
\* C4: for every non-empty line of 0/1 pixels the encoding has at least one
\* entry; every entry is one byte whose top bit is the colour of its run and
\* whose low 7 bits are a count in 1..127; a run longer than 127 pixels is
\* entries of count 127 followed by one entry for the remainder; a uniform
\* line is never encoded as an empty payload.
C4_RleEntries ==
  (Done("rle_encode_line") /\ inp.line # <<>>) =>
    /\ out.kind = "ok"
    /\ Len(out.bytes) >= 1
    /\ \A k \in 1..Len(out.bytes) :
         /\ out.bytes[k] \in 0..255
         /\ out.bytes[k] % 128 \in 1..127
    /\ out.bytes = ExpectedRle(inp.line)

\* an all-white line longer than two full runs has been encoded
C4_Witness ==
  /\ Done("rle_encode_line")
  /\ inp.line = TwoRuns(0, 384, 0)
  /\ out.bytes = <<127, 127, 127, 3>>

(***************************************************************************)
(* C3 - build_line_packets: one packet per row, the shorter encoding.      *)
(***************************************************************************)
IsLinePacket(p) == p.cmd \in {191, 162}
IsFeedPacket(p) == p.cmd = 189
\* row r (from 1) of a raster
RowOf(pixels, width, r) == SubSeq(pixels, (r - 1) * width + 1, r * width)
\* the bit-packed bytes of the claims: pixel i of a group is bit i of the
\* byte when lsb_first, bit 7 - i otherwise
PackedBytes(line, lsb_first) ==
  [k \in 1..(Len(line) \div 8) |->
     LET px(i) == line[8 * (k - 1) + i + 1]
         w(i) == IF lsb_first THEN 2 ^ i ELSE 2 ^ (7 - i)
     IN px(0) * w(0) + px(1) * w(1) + px(2) * w(2) + px(3) * w(3)
        + px(4) * w(4) + px(5) * w(5) + px(6) * w(6) + px(7) * w(7)]
RleLength(line) == Cardinality(EntryStarts(line))

\* C3: with compression, exactly one line packet per raster row, in row
\* order: RLE (0xBF) when the row's RLE is not longer than width/8 bytes (a
\* tie goes to RLE), otherwise the raw packet (0xA2) of exactly width/8
\* bytes, so the payload sent is never longer than the other encoding;
\* without compression every row is a raw 0xA2 packet.
C3_LineChoice ==
  (Done("build_line_packets") /\ inp.width > 0 /\ inp.width % 8 = 0) =>
    /\ out.kind = "ok"
    /\ LET P == ParsePackets(out.bytes)
           L == SelectSeq(P.pkts, IsLinePacket)
           wb == inp.width \div 8
       IN /\ P.ok
          /\ Len(L) = Len(inp.pixels) \div inp.width
          /\ \A p \in 1..Len(P.pkts) : P.pkts[p].marker = inp.new_format
          /\ \A r \in 1..Len(L) :
               LET row == RowOf(inp.pixels, inp.width, r)
               IN IF inp.compress /\ RleLength(row) <= wb
                  THEN /\ L[r].cmd = 191
                       /\ L[r].payload = ExpectedRle(row)
                       /\ Len(L[r].payload) <= wb
                  ELSE /\ L[r].cmd = 162
                       /\ L[r].payload = PackedBytes(row, inp.lsb_first)
                       /\ Len(L[r].payload) = wb
                       /\ inp.compress => Len(L[r].payload) < RleLength(row)

\* the all-white row of width 384 has been sent as a 4-byte RLE packet
C3_Witness ==
  /\ Done("build_line_packets")
  /\ inp.compress
  /\ inp.width = 384
  /\ inp.pixels = RasterOf(<<"white">>, 384)
  /\ out.bytes = make_packet(191, <<127, 127, 127, 3>>, FALSE)

(***************************************************************************)
(* C2 - build_job: the packet sequence of a page.                          *)
(***************************************************************************)
\* a raster as section 3 of the specification defines it
ValidRaster(pixels, width) ==
  width > 0 /\ width % 8 = 0 /\ Len(pixels) % width = 0
\* packet p carries row `row` as the claims say a row is sent
CarriesRow(p, row, wb, compress, lsb_first) ==
  IF compress /\ RleLength(row) <= wb
  THEN p.cmd = 191 /\ p.payload = ExpectedRle(row)
  ELSE p.cmd = 162 /\ p.payload = PackedBytes(row, lsb_first)
Is(p, cmd, payload) == p.cmd = cmd /\ p.payload = payload
Clamp15(x) == IF x < 1 THEN 1 ELSE IF x > 5 THEN 5 ELSE x
\* the packets from index lo on are the rows of the raster in order, with a
\* feed_paper(speed) after every row whose number is a multiple of 200
RowsFrom(S, lo, a) ==
  LET h == Len(a.pixels) \div a.width
  IN /\ \A r \in 1..h :
          CarriesRow(S[lo + r + ((r - 1) \div 200)], RowOf(a.pixels, a.width, r),
                     a.width \div 8, a.compress, a.lsb_first)
     /\ \A k \in 1..(h \div 200) : Is(S[lo + 201 * k], 189, <<a.speed % 256>>)
\* the number of packets that carry the rows and the periodic feeds
BodyLength(a) == LET h == Len(a.pixels) \div a.width IN h + (h \div 200)
EnergyPackets(a) == IF a.energy > 0 THEN 1 ELSE 0

\* C2: for one page build_job emits exactly blackening(density);
\* energy(level), absent only when level <= 0; print_mode(is_text);
\* feed_paper(speed); one line packet per raster row in row order, with the
\* periodic feeds; feed_paper(padding); paper_size(dpi) twice;
\* feed_paper(padding); device_state() last; and all packets of the job
\* carry the dialect marker or none does.
C2_JobSequence ==
  (Done("build_job") /\ ValidRaster(inp.pixels, inp.width) /\ out.kind = "ok") =>
    LET P == ParsePackets(out.bytes)
        S == P.pkts
        e == EnergyPackets(inp)
        n == Len(S)
    IN /\ P.ok
       /\ n = 1 + e + 2 + BodyLength(inp) + 5
       /\ Is(S[1], 164, <<48 + Clamp15(inp.blackening)>>)
       /\ e = 1 => Is(S[2], 175, <<inp.energy % 256, inp.energy \div 256>>)
       /\ Is(S[2 + e], 190, <<IF inp.is_text THEN 1 ELSE 0>>)
       /\ Is(S[3 + e], 189, <<inp.speed % 256>>)
       /\ RowsFrom(S, 3 + e, inp)
       /\ Is(S[n - 4], 189, <<inp.feed_padding % 256>>)
       /\ Is(S[n - 3], 161, IF inp.dev_dpi = 300 THEN <<72, 0>> ELSE <<48, 0>>)
       /\ Is(S[n - 2], 161, IF inp.dev_dpi = 300 THEN <<72, 0>> ELSE <<48, 0>>)
       /\ Is(S[n - 1], 189, <<inp.feed_padding % 256>>)
       /\ Is(S[n], 163, <<0>>)
       /\ \A i \in 1..n : S[i].marker = inp.new_format

\* the end-to-end example: 8 black rows of width 384, energy set, no marker,
\* decoded to the 17 packets of the specification
C2_Witness ==
  /\ Done("build_job")
  /\ inp.width = 384 /\ Len(inp.pixels) = 8 * 384 /\ inp.energy = 5000
  /\ ~inp.new_format
  /\ out.kind = "ok"
  /\ LET S == ParsePackets(out.bytes).pkts
     IN [i \in 1..Len(S) |-> S[i].cmd]
          = <<164, 175, 190, 189, 191, 191, 191, 191, 191, 191, 191, 191,
              189, 161, 161, 189, 163>>

(***************************************************************************)
(* C5 - the periodic feed.                                                 *)
(***************************************************************************)
\* the packets between the header of the page and its trailer (build_job
\* has one more header packet, the blackening, and 5 trailer packets)
PageBody(S, a, isJob) ==
  SubSeq(S, (IF isJob THEN 1 ELSE 0) + EnergyPackets(a) + 3,
         Len(S) - (IF isJob THEN 5 ELSE 0))

\* C5: within the line packets of a page a feed_paper(speed) packet follows
\* the packet of row r (from 1) iff r is a multiple of 200: a raster of
\* height h holds exactly h \div 200 periodic feeds, none below 200 rows,
\* and one after the last line packet, before the trailer, at 200 rows.
C5_PeriodicFeed ==
  ((Done("build_job") \/ Done("build_print_payload"))
     /\ ValidRaster(inp.pixels, inp.width) /\ out.kind = "ok") =>
    LET S == ParsePackets(out.bytes).pkts
        B == PageBody(S, inp, op = "build_job")
        h == Len(inp.pixels) \div inp.width
    IN /\ Len(B) = h + (h \div 200)
       /\ \A r \in 1..h :
            LET i == r + ((r - 1) \div 200)
            IN /\ IsLinePacket(B[i])
               /\ (r % 200 = 0) <=>
                    (i + 1 <= Len(B) /\ Is(B[i + 1], 189, <<inp.speed % 256>>))
       /\ Len(SelectSeq(B, IsFeedPacket)) = h \div 200
       /\ Len(SelectSeq(B, IsLinePacket)) = h

\* a page of exactly 200 rows: its one periodic feed follows the last line
\* packet and precedes the trailer's feed_paper(padding)
C5_Witness ==
  /\ Done("build_job")
  /\ inp.width = 8 /\ Len(inp.pixels) = 200 * 8
  /\ out.kind = "ok"
  /\ LET S == ParsePackets(out.bytes).pkts
         B == PageBody(S, inp, TRUE)
     IN /\ Len(B) = 201
        /\ IsLinePacket(B[200])
        /\ Is(B[201], 189, <<inp.speed % 256>>)
        /\ Is(S[Len(S) - 4], 189, <<inp.feed_padding % 256>>)

(***************************************************************************)
(* C6 - Raster.validate.                                                   *)
(***************************************************************************)
FromRaster == {"build_job_from_raster", "build_print_payload_from_raster"}

\* C6: Raster.validate accepts a raster only if its width is greater than 0,
\* its width is a multiple of 8 and its pixel count is a multiple of its
\* width; the from_raster builders run it before any packet is built, so a
\* raster violating one of the three is rejected by validation itself.
C6_ValidateRejects ==
  /\ (Done("Raster.validate") /\ out.kind = "ok") =>
       ValidRaster(inp.pixels, inp.width)
  /\ (pc = "done" /\ op \in FromRaster /\ ~ValidRaster(inp.pixels, inp.width)) =>
       /\ Raster_validate(inp.pixels, inp.width).kind # "ok"
       /\ out = Raster_validate(inp.pixels, inp.width)

(***************************************************************************)
(* C7 - a width that is no multiple of 8.                                  *)
(***************************************************************************)
Encoders ==
  {"build_line_packets", "build_print_payload", "build_job"} \cup FromRaster

\* C7 as stated: whenever the width is no multiple of 8 the encoder fails
\* with ValueError and returns no job bytes, for every pixel sequence and
\* every other parameter value, in build_line_packets and its callers.
C7_AlwaysValueError ==
  (pc = "done" /\ op \in Encoders /\ inp.width % 8 # 0) =>
    out.kind = "ValueError" /\ out.bytes = <<>>

\* C7, amended: whenever the width is no multiple of 8 the encoder fails and
\* returns no job bytes; build_line_packets raises ValueError; its callers
\* raise ValueError too unless energy > 65535, where energy_cmd, which runs
\* before the width check, raises OverflowError (in the from_raster builders
\* only when the raster passed Raster.validate).
C7_WidthRejected ==
  (pc = "done" /\ op \in Encoders /\ inp.width % 8 # 0) =>
    /\ out.kind \in {"ValueError", "OverflowError"}
    /\ out.bytes = <<>>
    /\ op = "build_line_packets" => out.kind = "ValueError"
    /\ op \in {"build_print_payload", "build_job"} =>
         (out.kind = "OverflowError" <=> inp.energy > 65535)
    /\ op \in FromRaster =>
         (out.kind = "OverflowError" <=>
            (inp.energy > 65535 /\ Raster_validate(inp.pixels, inp.width).kind = "ok"))

\* build_job has refused a width of 7 at the width check
C7_Witness ==
  /\ Done("build_job")
  /\ inp.width = 7 /\ inp.energy = 5000
  /\ out = Raise("ValueError", "Width must be divisible by 8")

(***************************************************************************)
(* C10 - detect_from_device_name.                                          *)
(***************************************************************************)
\* p is a prefix of n, ignoring case
PrefixOf(p, n) ==
  /\ Len(p) <= Len(n)
  /\ \A i \in 1..Len(p) : LowerChar(p[i]) = LowerChar(n[i])
HeadMatches(models, name) ==
  {m \in {models[i] : i \in 1..Len(models)} :
     m.head_name # <<>> /\ PrefixOf(m.head_name, name)}
NumberMatches(models, name) ==
  {m \in {models[i] : i \in 1..Len(models)} : PrefixOf(m.model_no, name)}

\* C10: detection ignores case and returns the entry with the longest
\* non-empty head name that is a prefix of the name; only if no head name is
\* a prefix, the entry with the longest model number that is a prefix; no
\* match when neither kind of prefix matches or the name is empty.
C10_LongestPrefix ==
  Done("detect_from_device_name") =>
    LET H == HeadMatches(inp.models, inp.name)
        N == NumberMatches(inp.models, inp.name)
        r == out.value
    IN IF inp.name = <<>> THEN r = NoModel
       ELSE IF H # {}
       THEN /\ r.found /\ r.model \in H
            /\ \A m \in H : Len(m.head_name) <= Len(r.model.head_name)
       ELSE IF N # {}
       THEN /\ r.found /\ r.model \in N
            /\ \A m \in N : Len(m.model_no) <= Len(r.model.model_no)
       ELSE r = NoModel

\* head names "EM" and "EMX1", in this order, and the name "EMX1000": the
\* "EMX1" entry is returned
C10_Witness ==
  /\ Done("detect_from_device_name")
  /\ inp.name = <<"E", "M", "X", "1", "0", "0", "0">>
  /\ Len(inp.models) >= 2
  /\ inp.models[1].head_name = <<"E", "M">>
  /\ inp.models[2].head_name = <<"E", "M", "X", "1">>
  /\ out.value = FoundModel(inp.models[2])

(***************************************************************************)
(* Device resolution (timiniprint/device_utils.py).  A DeviceInfo is a     *)
(* record of two strings, name and address; the scan is the list that      *)
(* SppBackend.scan() returned.                                             *)
(***************************************************************************)
HexDigits ==
  {"0", "1", "2", "3", "4", "5", "6", "7", "8", "9",
   "a", "b", "c", "d", "e", "f", "A", "B", "C", "D", "E", "F"}
Whitespace == {" "}

\* str.strip()
lstrip(str) ==
  LET keep == {i \in 1..Len(str) : str[i] \notin Whitespace}
  IN IF keep = {} THEN <<>>
     ELSE SubSeq(str, CHOOSE i \in keep : \A j \in keep : i <= j, Len(str))
rstrip(str) ==
  LET keep == {i \in 1..Len(str) : str[i] \notin Whitespace}
  IN IF keep = {} THEN <<>>
     ELSE SubSeq(str, 1, CHOOSE i \in keep : \A j \in keep : j <= i)
strip(str) == rstrip(lstrip(str))

\* _ADDRESS_RE: ^([0-9A-Fa-f]{2}[:-]){5}[0-9A-Fa-f]{2}$
ADDRESS_RE_match(str) ==
  /\ Len(str) = 17
  /\ \A i \in 1..17 :
       IF i % 3 = 0 THEN str[i] \in {":", "-"} ELSE str[i] \in HexDigits

looks_like_address(value) == ADDRESS_RE_match(strip(value))

\* sub in str
contains(str, sub) ==
  \E k \in 0..(Len(str) - Len(sub)) : SubSeq(str, k + 1, k + Len(sub)) = sub

NoDevice == [found |-> FALSE]
FoundDevice(d) == [found |-> TRUE, device |-> d]

\* a loop `for device in devices: if <hit>: return device`, then None
first_device(devices, hits) ==
  IF hits = {} THEN NoDevice
  ELSE FoundDevice(devices[CHOOSE i \in hits : \A j \in hits : i <= j])

\* mutant: every scanned device is kept
filter_printer_devices_all(models, devices) == devices

filter_printer_devices(models, devices) ==
  SelectSeq(devices, LAMBDA device : detect_from_device_name(models, device.name).found)

\* mutant: one pass that takes the first name that equals or contains the hint
select_device_one_pass(devices, name_or_address) ==
  IF looks_like_address(name_or_address)
  THEN first_device(devices, {i \in 1..Len(devices) :
                                lower(devices[i].address) = lower(name_or_address)})
  ELSE LET target == lower(name_or_address)
       IN first_device(devices, {i \in 1..Len(devices) :
                                   contains(lower(devices[i].name), target)})

select_device(devices, name_or_address) ==
  IF looks_like_address(name_or_address)
  THEN first_device(devices, {i \in 1..Len(devices) :
                                lower(devices[i].address) = lower(name_or_address)})
  ELSE LET target == lower(name_or_address)
           exact == first_device(devices, {i \in 1..Len(devices) :
                                             lower(devices[i].name) = target})
       IN IF exact.found THEN exact
          ELSE first_device(devices, {i \in 1..Len(devices) :
                                        contains(lower(devices[i].name), target)})

\* Optional[str]
None == [given |-> FALSE]
Str(s) == [given |-> TRUE, str |-> s]
\* the truth value of an Optional[str]
Truthy(o) == o.given /\ o.str # <<>>

resolve_printer_device(models, scan, name_or_address) ==
  LET devices == filter_printer_devices(models, scan)
  IN IF devices = <<>> THEN Raise("RuntimeError", "No supported printers found")
     ELSE IF Truthy(name_or_address)
     THEN LET device == select_device(devices, name_or_address.str)
          IN IF ~device.found THEN Raise("RuntimeError", "No device matches")
             ELSE OkVal(device.device)
     ELSE OkVal(devices[1])

\* scans of up to MaxScan distinct devices, in every order
MaxScan == 2
Mac(hi, sep, lo) ==
  hi \o <<sep, "0", "0", sep, "0", "0", sep, "0", "0", sep, "0", "0", sep>> \o lo
Device(n, a) == [name |-> n, address |-> a]
DevicePool ==
  {Device(<<"E", "M", "X", "1", "0", "0", "0">>, Mac(<<"A", "E">>, ":", <<"0", "1">>)),
   Device(<<"e", "m", "x", "1">>, Mac(<<"A", "E">>, ":", <<"0", "2">>)),
   Device(<<"E", "M", "X", "1">>, Mac(<<"A", "E">>, ":", <<"0", "7">>)),
   Device(<<"G", "T", "9">>, Mac(<<"a", "e">>, ":", <<"0", "3">>)),
   Device(<<"X", "1">>, Mac(<<"A", "E">>, ":", <<"0", "4">>)),
   Device(Mac(<<"A", "E">>, ":", <<"0", "1">>), Mac(<<"A", "E">>, ":", <<"0", "5">>)),
   Device(<<>>, Mac(<<"A", "E">>, ":", <<"0", "6">>))}
Scans ==
  {s \in SeqsUpTo(DevicePool, MaxScan) :
     \A i, j \in 1..Len(s) : i # j => s[i] # s[j]}
HintStrings ==
  {<<>>,
   <<"E", "M", "X", "1">>,
   <<"e", "m", "x", "1", "0", "0", "0">>,
   <<"X", "1">>,
   <<"g", "t">>,
   <<"Z", "Z">>,
   Mac(<<"A", "E">>, ":", <<"0", "1">>),
   Mac(<<"a", "e">>, ":", <<"0", "1">>),
   Mac(<<"A", "E">>, "-", <<"0", "1">>),
   <<" ">> \o Mac(<<"A", "E">>, ":", <<"0", "1">>),
   Mac(<<"A", "E">>, ":", <<"0", "3">>),
   Mac(<<"A", "E">>, ":", <<"0", "4">>),
   Mac(<<"A", "E">>, ":", <<"0", "0">>) \o <<"0">>}
Hints == {None} \cup {Str(h) : h \in HintStrings}
ResolveModels ==
  <<[model_no |-> <<"A", "1">>, head_name |-> <<"E", "M">>],
    [model_no |-> <<"G", "T">>, head_name |-> <<>>],
    [model_no |-> <<"A", "E">>, head_name |-> <<>>]>>
ResolveRegistries == {ResolveModels, SubSeq(ResolveModels, 1, 1)}
ResolveCalls ==
  {[op |-> "resolve_printer_device",
    args |-> [models |-> r, scan |-> s, hint |-> h]] :
     r \in ResolveRegistries, s \in Scans, h \in Hints}
  \cup
  {[op |-> "select_device", args |-> [devices |-> s, hint |-> h]] :
     s \in Scans, h \in HintStrings}

SelectDevice ==
  /\ pc = "call" /\ op = "select_device"
  /\ Return(OkVal(select_device(inp.devices, inp.hint)))

ResolvePrinterDevice ==
  /\ pc = "call" /\ op = "resolve_printer_device"
  /\ Return(resolve_printer_device(inp.models, inp.scan, inp.hint))

\* device resolution
InitResolve == InitCalls(ResolveCalls)
NextResolve == SelectDevice \/ ResolvePrinterDevice
SpecResolve == InitResolve /\ [][NextResolve]_vars

(***************************************************************************)
(* Device resolution: what a hint selects.                                 *)
(***************************************************************************)
\* the scanned devices whose name the catalogue detects
Supported(models, scan) ==
  {i \in 1..Len(scan) : detect_from_device_name(models, scan[i].name).found}
SameAddress(d, h) == lower(d.address) = lower(h)
SameName(d, h) == lower(d.name) = lower(h)
NameContains(d, h) == contains(lower(d.name), lower(h))
\* the device answers to the hint, by address or by name
HintMatches(d, h) ==
  IF looks_like_address(h) THEN SameAddress(d, h) ELSE NameContains(d, h)

\* C11: resolve_printer_device raises an error when no scanned device has a
\* name the catalogue detects, and when a hint is given that no supported
\* device matches; in every other case it returns one device, and that
\* device is one of the supported devices of the scan.
C11_Resolve ==
  Done("resolve_printer_device") =>
    LET F == Supported(inp.models, inp.scan)
        M == {i \in F : HintMatches(inp.scan[i], inp.hint.str)}
    IN IF F = {} THEN out.kind = "RuntimeError"
       ELSE IF inp.hint.given /\ M = {} THEN out.kind = "RuntimeError"
       ELSE /\ out.kind = "ok"
            /\ \E i \in F : out.value = inp.scan[i]

\* the hint names exactly a device that is not a supported printer, the
\* device comes first in the scan, and another device is returned
C11_Witness ==
  /\ Done("resolve_printer_device")
  /\ out.kind = "ok"
  /\ inp.hint.given
  /\ Len(inp.scan) = 2
  /\ 1 \notin Supported(inp.models, inp.scan)
  /\ SameName(inp.scan[1], inp.hint.str)
  /\ out.value # inp.scan[1]

\* C12: a hint that has the form of a six-octet hex address selects the
\* device with that address, or none, and never a device by its name; any
\* other hint selects a device whose name equals it, ignoring case, before
\* any device whose name only contains it, whatever the order of the scan;
\* without a hint the first supported device is returned.
C12_Precedence ==
  /\ Done("select_device") =>
       LET ds == inp.devices
           I == 1..Len(ds)
           r == out.value
       IN IF looks_like_address(inp.hint)
          THEN /\ r.found <=> \E i \in I : SameAddress(ds[i], inp.hint)
               /\ r.found => SameAddress(r.device, inp.hint)
          ELSE IF \E i \in I : SameName(ds[i], inp.hint)
          THEN r.found /\ SameName(r.device, inp.hint)
          ELSE IF \E i \in I : NameContains(ds[i], inp.hint)
          THEN r.found /\ NameContains(r.device, inp.hint)
          ELSE ~r.found
  /\ Done("resolve_printer_device") /\ ~Truthy(inp.hint) /\ out.kind = "ok" =>
       LET F == Supported(inp.models, inp.scan)
       IN \E i \in F : out.value = inp.scan[i] /\ \A j \in F : i <= j

\* a device whose name contains the hint comes before the device whose name
\* equals it, and the second is selected
C12_Witness ==
  /\ Done("select_device")
  /\ ~looks_like_address(inp.hint)
  /\ Len(inp.devices) >= 2
  /\ NameContains(inp.devices[1], inp.hint)
  /\ ~SameName(inp.devices[1], inp.hint)
  /\ out.value.found
  /\ out.value.device = inp.devices[2]
  /\ SameName(inp.devices[2], inp.hint)

(***************************************************************************)
(* The sender of the standalone script (print_emx_040256.py, send_data).   *)
(* inp.inbound is the byte stream the printer sends back during the job;   *)
(* how much of it has arrived at each read is not decided by the sender.   *)
(* The locals of send_data are held in frame: is_full, offset, the bytes   *)
(* written to the port so far (sent) and the number of inbound bytes the   *)
(* reads have consumed (rpos).                                             *)
(***************************************************************************)
FLOW_ON == <<81, 120, 174, 1, 1, 0, 16, 112, 255>>
FLOW_OFF == <<81, 120, 174, 1, 1, 0, 0, 0, 255>>

\* data[offset : offset + chunk_size] for chunk_size >= 0
chunk_at(data, offset, chunk_size) ==
  SubSeq(data, offset + 1, Min(Len(data), offset + chunk_size))

\* lines 508-511: the paused flag after a read returned pending
flow_state(is_full, pending) ==
  IF contains(pending, FLOW_ON) THEN TRUE
  ELSE IF contains(pending, FLOW_OFF) THEN FALSE
  ELSE is_full

\* line 502: the port is opened, or serial.Serial raises
SendDataOpen ==
  /\ pc = "call" /\ op = "send_data"
  /\ \/ /\ pc' = "loop"
        /\ frame' = [is_full |-> FALSE, offset |-> 0, sent |-> <<>>, rpos |-> 0]
        /\ UNCHANGED <<op, inp, out>>
     \/ /\ pc' = "done"
        /\ out' = Raise("SerialException", "could not open port")
        /\ UNCHANGED <<op, inp, frame>>

\* lines 505-511: the loop test, and with flow control the read of whatever
\* has arrived (k bytes) and the update of is_full
SendDataPoll ==
  /\ pc = "loop" /\ op = "send_data"
  /\ IF frame.offset >= Len(inp.data)
     THEN /\ pc' = "done"
          /\ out' = Ok(frame.sent)
          /\ UNCHANGED <<op, inp, frame>>
     ELSE /\ pc' = "polled"
          /\ UNCHANGED <<op, inp, out>>
          /\ IF inp.flow_control
             THEN \E k \in 0..(Len(inp.inbound) - frame.rpos) :
                    LET pending == SubSeq(inp.inbound, frame.rpos + 1, frame.rpos + k)
                    IN frame' = [frame EXCEPT
                                   !.is_full = flow_state(frame.is_full, pending),
                                   !.rpos = frame.rpos + k]
             ELSE UNCHANGED frame

\* lines 512-519: wait while paused, else write one chunk and advance
SendDataWrite ==
  /\ pc = "polled" /\ op = "send_data"
  /\ pc' = "loop"
  /\ UNCHANGED <<op, inp, out>>
  /\ IF frame.is_full
     THEN UNCHANGED frame
     ELSE LET chunk == chunk_at(inp.data, frame.offset, inp.chunk_size)
          IN frame' = [frame EXCEPT !.sent = frame.sent \o chunk,
                                    !.offset = frame.offset + Len(chunk)]

\* jobs of up to MaxData bytes, inbound streams of up to MaxSentinels items
MaxData == 3
MaxSentinels == 2
Noise == <<81, 120>>
RECURSIVE Flatten(_)
Flatten(ss) == IF ss = <<>> THEN <<>> ELSE Head(ss) \o Flatten(Tail(ss))
InboundStreams ==
  {Flatten(ss) : ss \in SeqsUpTo({FLOW_ON, FLOW_OFF, Noise}, MaxSentinels)}
JobData == {[i \in 1..n |-> i] : n \in 0..MaxData}
SendCalls ==
  {[op |-> "send_data",
    args |-> [data |-> d, chunk_size |-> c, flow_control |-> f, inbound |-> s]] :
     d \in JobData, c \in 1..2, f \in BOOLEAN, s \in InboundStreams}

InitSend == InitCalls(SendCalls)
NextSend == SendDataOpen \/ SendDataPoll \/ SendDataWrite
SpecSend == InitSend /\ [][NextSend]_vars

(***************************************************************************)
(* Flow control as the inbound stream states it: the sender is paused when *)
(* the most recent complete sentinel among the bytes it has read is ON.    *)
(***************************************************************************)
\* the positions at which a complete sentinel ends in b
EndsOf(b, sentinel) ==
  {e \in Len(sentinel)..Len(b) : SubSeq(b, e - Len(sentinel) + 1, e) = sentinel}
Last(S) == IF S = {} THEN 0 ELSE CHOOSE e \in S : \A x \in S : x <= e
\* "on", "off" or "none"
LastSentinel(b) ==
  LET on == Last(EndsOf(b, FLOW_ON))
      off == Last(EndsOf(b, FLOW_OFF))
  IN IF on = 0 /\ off = 0 THEN "none" ELSE IF on > off THEN "on" ELSE "off"
\* the inbound bytes the sender has read so far
Consumed == SubSeq(inp.inbound, 1, frame.rpos)
Polled == pc = "polled" /\ op = "send_data" /\ inp.flow_control

\* C13: while the sender is paused (an ON sentinel has been read from the
\* inbound stream and no OFF after it), a step of send_data writes nothing:
\* the bytes written and the send offset stay as they are.
C13_NoWriteWhilePaused ==
  [][Polled /\ LastSentinel(Consumed) = "on"
       => frame'.sent = frame.sent /\ frame'.offset = frame.offset]_vars

\* C14: once OFF is the last sentinel read from the inbound stream the sender
\* is no longer paused, so that it goes on to write the remaining bytes.
C14_ResumedAfterOff ==
  Polled /\ LastSentinel(Consumed) = "off" => ~frame.is_full

(***************************************************************************)
(* The serial transport (timiniprint/transport/serial.py,                  *)
(* SerialTransport._write_blocking; write_serial_blocking of               *)
(* timiniprint/cli.py is the same code).  The port is pyserial's: opening, *)
(* writing and flushing either succeed or raise.  The locals are held in   *)
(* frame: offset, the chunks ser.write accepted, the number of calls of    *)
(* ser.write, of time.sleep and of ser.flush, whether the port is open,    *)
(* the operation that raised, and the parity of the iterations run (turn). *)
(***************************************************************************)
MaxChunk == 2
\* the event counts of a write loop that never ends are cut here
MaxCalls == MaxData + 2
Bump(n) == Min(n + 1, MaxCalls)
Log(chunks, chunk) == IF Len(chunks) < MaxCalls THEN Append(chunks, chunk) ELSE chunks

\* line 23: interval = max(0.0, interval_ms / 1000.0); the test `if interval`
pacing(interval_ms) == interval_ms > 0

\* mutant: the port is left open when the operation raises
on_exception_port_left_open(fr, where) == [fr EXCEPT !.failed = where]

\* lines 25, 34-35: leaving the `with` block on an exception closes the port
on_exception(fr, where) == [fr EXCEPT !.port = "closed", !.failed = where]

\* mutant: the chunk is one byte longer than the chunk size
serial_chunk_one_more(data, offset, chunk_size) ==
  SubSeq(data, offset + 1, Min(Len(data), offset + chunk_size + 1))

\* line 28: chunk = data[offset : offset + chunk_size]
serial_chunk(data, offset, chunk_size) == chunk_at(data, offset, chunk_size)

SerialFrame ==
  [offset |-> 0, chunks |-> <<>>, attempts |-> 0, sleeps |-> 0, flushes |-> 0,
   port |-> "closed", failed |-> "none", turn |-> 0]

\* line 25: serial.Serial(...) opens the port; line 26
SerialOpen ==
  /\ pc = "call" /\ op = "SerialTransport.write"
  /\ pc' = "loop"
  /\ frame' = [SerialFrame EXCEPT !.port = "open"]
  /\ UNCHANGED <<op, inp, out>>

\* lines 19-22, 25, 34-35: pyserial is missing or the port cannot be opened
SerialOpenFails ==
  /\ pc = "call" /\ op = "SerialTransport.write"
  /\ pc' = "done"
  /\ \E where \in {"import", "open"} : frame' = on_exception(SerialFrame, where)
  /\ out' = Raise("RuntimeError", "Serial connection failed")
  /\ UNCHANGED <<op, inp>>

\* lines 27-32: one iteration, the write is accepted
SerialWriteChunk ==
  /\ pc = "loop" /\ op = "SerialTransport.write"
  /\ frame.offset < Len(inp.data)
  /\ LET chunk == serial_chunk(inp.data, frame.offset, inp.chunk_size)
     IN frame' = [frame EXCEPT
                    !.chunks = Log(frame.chunks, chunk),
                    !.attempts = Bump(frame.attempts),
                    !.offset = frame.offset + Len(chunk),
                    !.turn = 1 - frame.turn,
                    !.sleeps = IF pacing(inp.interval_ms) THEN Bump(frame.sleeps)
                               ELSE frame.sleeps]
  /\ UNCHANGED <<pc, op, inp, out>>

\* lines 27-29, 34-35: ser.write raises (write timeout, device lost)
SerialWriteFails ==
  /\ pc = "loop" /\ op = "SerialTransport.write"
  /\ frame.offset < Len(inp.data)
  /\ pc' = "done"
  /\ frame' = on_exception([frame EXCEPT !.attempts = frame.attempts + 1], "write")
  /\ out' = Raise("RuntimeError", "Serial connection failed")
  /\ UNCHANGED <<op, inp>>

\* lines 27, 33: the loop is left, flush, the `with` block closes the port
SerialFlush ==
  /\ pc = "loop" /\ op = "SerialTransport.write"
  /\ frame.offset >= Len(inp.data)
  /\ pc' = "done"
  /\ frame' = [frame EXCEPT !.flushes = frame.flushes + 1, !.port = "closed"]
  /\ out' = OkVal("None")
  /\ UNCHANGED <<op, inp>>

\* lines 33-35: ser.flush raises
SerialFlushFails ==
  /\ pc = "loop" /\ op = "SerialTransport.write"
  /\ frame.offset >= Len(inp.data)
  /\ pc' = "done"
  /\ frame' = on_exception([frame EXCEPT !.flushes = frame.flushes + 1], "flush")
  /\ out' = Raise("RuntimeError", "Serial connection failed")
  /\ UNCHANGED <<op, inp>>

\* jobs of up to MaxData bytes, chunk sizes from 0 to MaxChunk
Intervals == {-4, 0, 4}
SerialCalls ==
  {[op |-> "SerialTransport.write",
    args |-> [data |-> d, chunk_size |-> c, interval_ms |-> t]] :
     d \in JobData, c \in 0..MaxChunk, t \in Intervals}

InitSerial == InitCalls(SerialCalls)
SerialSteps == SerialOpen \/ SerialWriteChunk \/ SerialFlush
SerialFailures == SerialOpenFails \/ SerialWriteFails \/ SerialFlushFails
NextSerial == SerialSteps \/ SerialFailures
SpecSerial == InitSerial /\ [][NextSerial]_vars
\* the executor thread keeps running the loop; the port is not bound to fail
SpecSerialFair == SpecSerial /\ WF_vars(SerialSteps)

(***************************************************************************)
(* The serial transport: what reaches the port.                            *)
(***************************************************************************)
Serial == op = "SerialTransport.write" /\ pc \in {"loop", "done"}
\* the bytes the port accepted, in the order of the calls
Written == Flatten(frame.chunks)
\* the calls of ser.write that returned
Accepted == frame.attempts - (IF frame.failed = "write" THEN 1 ELSE 0)

\* C15: the serial transport writes the job as consecutive chunks, none
\* larger than the chunk size, in order: the bytes written so far are always
\* a prefix of the job and after a successful write they are the whole job;
\* one pacing delay follows each chunk when the interval is positive (none
\* otherwise), and flush is called once, after the last chunk.
C15_SerialChunks ==
  Serial =>
    /\ \A i \in 1..Len(frame.chunks) : Len(frame.chunks[i]) <= inp.chunk_size
    /\ Len(Written) <= Len(inp.data)
    /\ Written = SubSeq(inp.data, 1, Len(Written))
    /\ out.kind = "ok" => Written = inp.data
    /\ frame.sleeps = IF inp.interval_ms > 0 THEN Accepted ELSE 0
    /\ frame.flushes <= 1
    /\ frame.flushes = 1 => pc = "done" /\ Written = inp.data
    /\ out.kind = "ok" => frame.flushes = 1

\* a job of three bytes went out as a chunk of two and a chunk of one, with
\* a pause after each
C15_Witness ==
  /\ Done("SerialTransport.write")
  /\ out.kind = "ok"
  /\ inp.chunk_size = 2
  /\ frame.chunks = <<<<1, 2>>, <<3>>>>
  /\ frame.sleeps = 2
  /\ frame.flushes = 1

\* C16: when opening the port, a write or the flush raises, the call ends
\* at once with a delivery error (RuntimeError): no chunk is written after
\* the failure and none is written twice; the port is closed whenever the
\* call has ended, with or without an error.
C16_SerialFailure ==
  /\ Serial /\ pc = "loop" => frame.port = "open" /\ frame.failed = "none"
  /\ Done("SerialTransport.write") =>
       /\ frame.port = "closed"
       /\ out.kind \in {"ok", "RuntimeError"}
       /\ out.kind = "RuntimeError" <=> frame.failed # "none"
       /\ frame.attempts = Len(frame.chunks) + (IF frame.failed = "write" THEN 1 ELSE 0)
       /\ Written = SubSeq(inp.data, 1, frame.offset)
       /\ frame.failed \in {"import", "open"} => frame.attempts = 0 /\ frame.flushes = 0
       /\ frame.failed = "write" => frame.flushes = 0

\* the second chunk was refused: the first is not written again, the rest
\* of the job is not sent, the port is closed
C16_Witness ==
  /\ Done("SerialTransport.write")
  /\ out.kind = "RuntimeError"
  /\ frame.failed = "write"
  /\ frame.chunks = <<<<1>>>>
  /\ Len(inp.data) = 3
  /\ frame.port = "closed"

\* C17: a serial write ends for every job, chunk size and interval: either
\* every byte was written and flushed or a delivery error was raised.
C17_SerialTerminates == <>(pc = "done")

(***************************************************************************)
(* Discovery (timiniprint/transport/bluetooth/scan.py, _dedupe_devices).   *)
(* by_addr, a dict in insertion order, is the sequence of its values.      *)
(***************************************************************************)
\* the characters of the model in code-point order
CodePoints ==
  <<" ", "-", "0", "1", "2", "3", "4", "5", "6", "7", "8", "9", ":",
    "A", "B", "C", "D", "E", "F", "G", "M", "T", "X", "Z",
    "a", "b", "c", "d", "e", "f", "g", "m", "t", "x", "z">>
Ord(c) == CHOOSE i \in 1..Len(CodePoints) : CodePoints[i] = c
\* a < b on two str values
str_lt(a, b) ==
  LET n == Min(Len(a), Len(b))
      diff == {i \in 1..n : a[i] # b[i]}
  IN IF diff = {} THEN Len(a) < Len(b)
     ELSE LET d == CHOOSE i \in diff : \A j \in diff : i <= j
          IN Ord(a[d]) < Ord(b[d])
\* line 77: key(x) <= key(y) for the key (item.name or "", item.address)
sort_key_le(x, y) ==
  \/ str_lt(x.name, y.name)
  \/ x.name = y.name /\ ~str_lt(y.address, x.address)

\* mutant: the first entry of an address is kept, named or not
dedupe_step_first_seen(by_addr, device) ==
  IF \E i \in 1..Len(by_addr) : by_addr[i].address = device.address
  THEN by_addr
  ELSE Append(by_addr, device)

\* lines 72-75: one device of the scan
dedupe_step(by_addr, device) ==
  LET at == {i \in 1..Len(by_addr) : by_addr[i].address = device.address}
  IN IF at = {} THEN Append(by_addr, device)
     ELSE LET i == CHOOSE i \in at : TRUE
          IN IF by_addr[i].name = <<>> /\ device.name # <<>>
             THEN [by_addr EXCEPT ![i] = device]
             ELSE by_addr

\* list.sort is stable: an item goes after the items whose key is not larger
sort_insert(sorted, item) ==
  LET k == Cardinality({i \in 1..Len(sorted) : sort_key_le(sorted[i], item)})
  IN SubSeq(sorted, 1, k) \o <<item>> \o SubSeq(sorted, k + 1, Len(sorted))

dedupe_devices(devices) ==
  LET by_addr == FoldRange(LAMBDA acc, i : dedupe_step(acc, devices[i]),
                           <<>>, 1, Len(devices))
  IN FoldRange(LAMBDA acc, i : sort_insert(acc, by_addr[i]), <<>>, 1, Len(by_addr))

\* raw scans of up to MaxRaw entries, addresses and names repeated
MaxRaw == 3
RawPool ==
  {Device(n, a) : n \in {<<>>, <<"B">>, <<"a">>}, a \in {<<"0", "1">>, <<"0", "2">>}}
RawScans == SeqsUpTo(RawPool, MaxRaw)
ScanCalls == {[op |-> "_dedupe_devices", args |-> [devices |-> s]] : s \in RawScans}

DedupeDevices ==
  /\ pc = "call" /\ op = "_dedupe_devices"
  /\ Return(OkVal(dedupe_devices(inp.devices)))

InitScan == InitCalls(ScanCalls)
NextScan == DedupeDevices
SpecScan == InitScan /\ [][NextScan]_vars

\* C18: the result of a discovery strategy holds each address once and
\* exactly the addresses of the raw scan; every entry is an entry of the raw
\* scan and has a name whenever some raw entry of its address has one; the
\* result is in ascending order of (name, address); deduplicating the result
\* again returns it unchanged.
C18_Dedupe ==
  Done("_dedupe_devices") =>
    LET S == inp.devices
        R == out.value
    IN /\ \A i, j \in 1..Len(R) : i # j => R[i].address # R[j].address
       /\ {R[i].address : i \in 1..Len(R)} = {S[i].address : i \in 1..Len(S)}
       /\ \A i \in 1..Len(R) :
            /\ \E j \in 1..Len(S) : R[i] = S[j]
            /\ (\E j \in 1..Len(S) : S[j].address = R[i].address /\ S[j].name # <<>>)
                 => R[i].name # <<>>
       /\ \A i, j \in 1..Len(R) :
            i < j => \/ str_lt(R[i].name, R[j].name)
                     \/ R[i].name = R[j].name /\ str_lt(R[i].address, R[j].address)
       /\ dedupe_devices(R) = R

\* an address is seen first without a name and then with one, and the scan
\* is not in order
C18_Witness ==
  /\ Done("_dedupe_devices")
  /\ Len(inp.devices) = 3
  /\ inp.devices[1] = Device(<<>>, <<"0", "2">>)
  /\ inp.devices[2] = Device(<<"a">>, <<"0", "2">>)
  /\ inp.devices[3] = Device(<<"B">>, <<"0", "1">>)
  /\ out.value = <<Device(<<"B">>, <<"0", "1">>), Device(<<"a">>, <<"0", "2">>)>>

(***************************************************************************)
(* The print-job builder (timiniprint/print_job.py, PrintJobBuilder).  A   *)
(* PrinterModel is reduced to the fields the builder reads.  A page is     *)
(* what load_pages and image_to_bw_pixels make of it at the builder's      *)
(* width: is_text and the rows of its raster.                              *)
(***************************************************************************)
DEFAULT_BLACKENING == 3
DEFAULT_FEED_PADDING == 12
DEFAULT_IMAGE_ENERGY == 5000
DEFAULT_TEXT_ENERGY == 8000

\* Optional[bool] with a value
Some(v) == [given |-> TRUE, value |-> v]

\* _use_compress
use_compress(model, settings) ==
  IF settings.compress.given THEN settings.compress.value ELSE model.new_compress

\* _lsb_first
lsb_first_of(model, settings) ==
  IF settings.lsb_first.given THEN settings.lsb_first.value ELSE ~model.a4xii

\* `x or default` on an int
OrElse(x, default) == IF x # 0 THEN x ELSE default

\* mutant: the catalogue value is used as it is
select_energy_as_listed(model, page) ==
  IF page.is_text THEN model.text_energy ELSE model.moderation_energy

\* _select_energy
select_energy(model, page) ==
  IF page.is_text THEN OrElse(model.text_energy, DEFAULT_TEXT_ENERGY)
  ELSE OrElse(model.moderation_energy, DEFAULT_IMAGE_ENERGY)

\* _normalized_width
normalized_width(width) == IF width % 8 = 0 THEN width ELSE width - (width % 8)

\* lines 38-53: the arguments of build_job for one page
page_job_args(model, settings, page, width) ==
  [pixels |-> RasterOf(page.rows, width),
   width |-> width,
   is_text |-> page.is_text,
   speed |-> IF page.is_text THEN model.text_print_speed ELSE model.img_print_speed,
   energy |-> select_energy(model, page),
   blackening |-> settings.blackening,
   compress |-> use_compress(model, settings),
   lsb_first |-> lsb_first_of(model, settings),
   new_format |-> model.new_format,
   feed_padding |-> settings.feed_padding,
   dev_dpi |-> model.dev_dpi]

build_job_of(a) ==
  build_job(a.pixels, a.width, a.is_text, a.speed, a.energy, a.blackening,
            a.compress, a.lsb_first, a.new_format, a.feed_padding, a.dev_dpi)

\* mutant: the job of a page is put in front of the jobs built so far
join_step_in_front(res, job) == Then(job, res)

\* lines 54-55: data_parts.append(job), b"".join(data_parts)
join_step(res, job) == Then(res, job)

\* lines 37-54: one page; nothing more is built once build_job has raised
page_step(acc, model, settings, page, width) ==
  IF acc.res.kind # "ok" THEN acc
  ELSE LET a == page_job_args(model, settings, page, width)
       IN [res |-> join_step(acc.res, build_job_of(a)),
           calls |-> Append(acc.calls, a)]

\* the result carries the calls of build_job that were made
build_from_file(model, settings, path, pages) ==
  IF path = "unsupported" THEN Raise("ValueError", "Supported formats")
  ELSE IF path = "missing" THEN Raise("FileNotFoundError", "File not found")
  ELSE LET width == normalized_width(model.width)
           end == FoldRange(LAMBDA acc, i : page_step(acc, model, settings, pages[i], width),
                            [res |-> Ok(<<>>), calls |-> <<>>], 1, Len(pages))
       IN [kind |-> end.res.kind, bytes |-> end.res.bytes, calls |-> end.calls]

\* documents of up to MaxPages pages: one text page, or image pages
MaxPages == 2
PrinterModels ==
  {[width |-> 16, text_print_speed |-> 10, img_print_speed |-> 30,
    text_energy |-> 0, moderation_energy |-> 0, new_compress |-> TRUE,
    a4xii |-> FALSE, new_format |-> FALSE, dev_dpi |-> 200],
   [width |-> 12, text_print_speed |-> 8, img_print_speed |-> 25,
    text_energy |-> 9000, moderation_energy |-> 6000, new_compress |-> FALSE,
    a4xii |-> TRUE, new_format |-> TRUE, dev_dpi |-> 300],
   [width |-> 23, text_print_speed |-> 12, img_print_speed |-> 12,
    text_energy |-> 8500, moderation_energy |-> 0, new_compress |-> TRUE,
    a4xii |-> TRUE, new_format |-> FALSE, dev_dpi |-> 203]}
OptionalBools == {None, Some(TRUE), Some(FALSE)}
PrintSettings ==
  {[compress |-> c, lsb_first |-> l, blackening |-> DEFAULT_BLACKENING,
    feed_padding |-> DEFAULT_FEED_PADDING] : c, l \in OptionalBools}
  \cup {[compress |-> None, lsb_first |-> None, blackening |-> 5, feed_padding |-> 0]}
PageRows == {<<"black">>, <<"white", "alt">>, <<"half", "half", "white">>}
TextPages == {[is_text |-> TRUE, rows |-> r] : r \in PageRows}
ImagePages == {[is_text |-> FALSE, rows |-> r] : r \in PageRows}
Documents == {<<p>> : p \in TextPages} \cup SeqsUpTo(ImagePages, MaxPages)
PrintJobCalls ==
  {[op |-> "build_from_file",
    args |-> [model |-> m, settings |-> s, path |-> "file", pages |-> d]] :
     m \in PrinterModels, s \in PrintSettings, d \in Documents}
  \cup
  {[op |-> "build_from_file",
    args |-> [model |-> m, settings |-> s, path |-> p, pages |-> <<>>]] :
     m \in PrinterModels, s \in {x \in PrintSettings : x.blackening = 5},
     p \in {"unsupported", "missing"}}

BuildFromFile ==
  /\ pc = "call" /\ op = "build_from_file"
  /\ Return(build_from_file(inp.model, inp.settings, inp.path, inp.pages))

InitPrintJob == InitCalls(PrintJobCalls)
NextPrintJob == BuildFromFile
SpecPrintJob == InitPrintJob /\ [][NextPrintJob]_vars

(***************************************************************************)
(* The print-job builder: the parameters of a page and the order of the    *)
(* jobs.                                                                   *)
(***************************************************************************)
Built == Done("build_from_file") /\ inp.path = "file"
\* the value an override or the catalogue gives
Chosen(override, listed) == IF override.given THEN override.value ELSE listed
\* the catalogue energy, or the fallback when it is zero
EnergyFor(listed, fallback) == IF listed = 0 THEN fallback ELSE listed

\* C19: every page of a document is built with parameters taken from the
\* builder's model: the text speed and text energy for a text page, the
\* image speed and moderate energy otherwise, 8000 (text) or 5000 (image) in
\* place of a zero energy, so that the energy is never zero; least
\* significant bit first unless the model is the a4xii variant or the
\* caller says otherwise; the model's compression unless the caller says
\* otherwise; the model's width rounded down to a multiple of 8.
C19_PageParameters ==
  Built =>
    /\ out.kind = "ok" => Len(out.calls) = Len(inp.pages)
    /\ \A i \in 1..Len(out.calls) :
         LET c == out.calls[i]
             p == inp.pages[i]
             m == inp.model
         IN /\ c.is_text = p.is_text
            /\ c.speed = IF p.is_text THEN m.text_print_speed ELSE m.img_print_speed
            /\ c.energy = IF p.is_text THEN EnergyFor(m.text_energy, 8000)
                          ELSE EnergyFor(m.moderation_energy, 5000)
            /\ c.energy # 0
            /\ c.lsb_first = Chosen(inp.settings.lsb_first, ~m.a4xii)
            /\ c.compress = Chosen(inp.settings.compress, m.new_compress)
            /\ c.width % 8 = 0 /\ c.width <= m.width /\ m.width < c.width + 8
            /\ c.new_format = m.new_format /\ c.dev_dpi = m.dev_dpi
            /\ LET S == ParsePackets(build_job_of(c).bytes)
               IN S.ok /\ \E k \in 1..Len(S.pkts) :
                    Is(S.pkts[k], 175, <<c.energy % 256, c.energy \div 256>>)

\* an image page of a model that lists no moderate energy and a width that
\* is not a multiple of 8, built with the fallback energy
C19_Witness ==
  /\ Built /\ out.kind = "ok"
  /\ inp.model.moderation_energy = 0 /\ inp.model.width = 23 /\ inp.model.a4xii
  /\ ~inp.settings.lsb_first.given
  /\ Len(out.calls) = 2
  /\ out.calls[2].energy = 5000 /\ out.calls[2].width = 16
  /\ ~out.calls[2].lsb_first

\* the job of page i when printed as a document of its own
PageAlone(i) ==
  build_from_file(inp.model, inp.settings, inp.path, <<inp.pages[i]>>)

\* C20: the bytes of a document of n pages are the job of page 1, then the
\* job of page 2, ... then the job of page n, where the job of a page is
\* the complete job that page gives on its own: it starts with its
\* blackening packet and ends with its device-state packet.
C20_PageOrder ==
  Built /\ out.kind = "ok" =>
    LET n == Len(inp.pages)
    IN /\ \A i \in 1..n :
            LET S == ParsePackets(PageAlone(i).bytes)
            IN /\ PageAlone(i).kind = "ok"
               /\ S.ok /\ Len(S.pkts) >= 2
               /\ S.pkts[1].cmd = 164
               /\ S.pkts[Len(S.pkts)].cmd = 163
               /\ \A k \in 2..Len(S.pkts) : S.pkts[k].cmd # 164
               /\ \A k \in 1..(Len(S.pkts) - 1) : S.pkts[k].cmd # 163
       /\ out.bytes = Flatten([i \in 1..n |-> PageAlone(i).bytes])

\* two pages that differ
C20_Witness ==
  /\ Built /\ out.kind = "ok"
  /\ Len(inp.pages) = 2
  /\ inp.pages[1].rows = <<"white", "alt">>
  /\ inp.pages[2].rows = <<"black">>
  /\ PageAlone(1).bytes # PageAlone(2).bytes
  /\ Len(out.bytes) = Len(PageAlone(1).bytes) + Len(PageAlone(2).bytes)

(***************************************************************************)
(* Command builders (timiniprint/protocol/commands.py): calls with integer *)
(* arguments below, inside and above the ranges the printer understands.   *)
(***************************************************************************)
MaxLevel == 8
Levels == (0 - MaxLevel)..MaxLevel
Speeds == {0 - 257, 0 - 256, 0 - 1, 0, 1, 10, 127, 128, 255, 256, 266, 511, 512}
Dpis == {0 - 300, 0, 200, 203, 299, 300, 301, 600}
CommandCalls ==
  {[op |-> "blackening_cmd", args |-> [level |-> l, new_format |-> f]] : l \in Levels, f \in BOOLEAN}
  \cup {[op |-> "print_mode_cmd", args |-> [is_text |-> t, new_format |-> f]] : t \in BOOLEAN, f \in BOOLEAN}
  \cup {[op |-> "feed_paper_cmd", args |-> [speed |-> s, new_format |-> f]] : s \in Speeds, f \in BOOLEAN}
  \cup {[op |-> "paper_cmd", args |-> [dpi |-> d, new_format |-> f]] : d \in Dpis, f \in BOOLEAN}
  \cup {[op |-> "dev_state_cmd", args |-> [new_format |-> f]] : f \in BOOLEAN}

BlackeningCmd ==
  /\ pc = "call" /\ op = "blackening_cmd"
  /\ Return(blackening_cmd(inp.level, inp.new_format))

PrintModeCmd ==
  /\ pc = "call" /\ op = "print_mode_cmd"
  /\ Return(print_mode_cmd(inp.is_text, inp.new_format))

FeedPaperCmd ==
  /\ pc = "call" /\ op = "feed_paper_cmd"
  /\ Return(feed_paper_cmd(inp.speed, inp.new_format))

PaperCmd ==
  /\ pc = "call" /\ op = "paper_cmd"
  /\ Return(paper_cmd(inp.dpi, inp.new_format))

DevStateCmd ==
  /\ pc = "call" /\ op = "dev_state_cmd"
  /\ Return(dev_state_cmd(inp.new_format))

InitCommands == InitCalls(CommandCalls)
NextCommands ==
  \/ BlackeningCmd
  \/ PrintModeCmd
  \/ FeedPaperCmd
  \/ PaperCmd
  \/ DevStateCmd
SpecCommands == InitCommands /\ [][NextCommands]_vars

\* the result is one packet and nothing else, carrying cmd and payload
OnePacket(r, cmd, payload, new_format) ==
  /\ r.kind = "ok"
  /\ PacketMatches(r.bytes, cmd, payload, new_format)
  /\ LET S == ParsePackets(r.bytes)
     IN S.ok /\ S.pos = Len(r.bytes) + 1 /\ Len(S.pkts) = 1
\* the residue of x modulo 256, found by search
Mod256(x) == CHOOSE r \in 0..255 : \E q \in (0 - 4)..4 : x = 256 * q + r

\* C21: every command builder returns exactly one packet with the command
\* id and payload of the command table, for every integer argument:
\* blackening is 0xA4 with the byte 0x30 + the level clamped to 1..5 (so a
\* byte in 0x31..0x35), print_mode is 0xBE with 1 for text and 0 otherwise,
\* feed_paper is 0xBD with the speed modulo 256, paper_size is 0xA1 with
\* 0x48,0x00 exactly for dpi 300 and 0x30,0x00 otherwise, device_state is
\* 0xA3 with the byte 0x00.
C21_CommandTable ==
  /\ Done("blackening_cmd") =>
       /\ OnePacket(out, 164, <<48 + Clamp15(inp.level)>>, inp.new_format)
       /\ ParsePacket(out.bytes).payload[1] \in 49..53
  /\ Done("print_mode_cmd") =>
       OnePacket(out, 190, <<IF inp.is_text THEN 1 ELSE 0>>, inp.new_format)
  /\ Done("feed_paper_cmd") =>
       OnePacket(out, 189, <<Mod256(inp.speed)>>, inp.new_format)
  /\ Done("paper_cmd") =>
       /\ inp.dpi = 300 => OnePacket(out, 161, <<72, 0>>, inp.new_format)
       /\ inp.dpi # 300 => OnePacket(out, 161, <<48, 0>>, inp.new_format)
  /\ Done("dev_state_cmd") => OnePacket(out, 163, <<0>>, inp.new_format)

\* a level above 5 was clamped to 5
C21_Witness ==
  /\ Done("blackening_cmd") /\ inp.level > 5
  /\ ParsePacket(out.bytes).payload = <<53>>

(***************************************************************************)
(* pack_line calls: every line of up to MaxPackLen pixels, and longer      *)
(* lines with one black pixel or alternating pixels.                       *)
(***************************************************************************)
MaxPackLen == 9
OneBlack(n, at) == [j \in 1..n |-> IF j = at THEN 1 ELSE 0]
Alternating(n, first) == [j \in 1..n |-> (j + first) % 2]
PackLines ==
  SeqsUpTo({0, 1}, MaxPackLen)
  \cup {OneBlack(n, at) : n \in {16, 17, 23, 24}, at \in {1, 8, 9, 16}}
  \cup {Alternating(n, f) : n \in {15, 16, 17, 25}, f \in {0, 1}}
PackCalls ==
  {[op |-> "pack_line", args |-> [line |-> l, lsb_first |-> f]] : l \in PackLines, f \in BOOLEAN}

PackLine ==
  /\ pc = "call" /\ op = "pack_line"
  /\ Return(Ok(pack_line(inp.line, inp.lsb_first)))

InitPack == InitCalls(PackCalls)
NextPack == PackLine
SpecPack == InitPack /\ [][NextPack]_vars

\* bit i of a byte, bit 0 being the least significant
BitOf(b, i) == (b \div (2 ^ i)) % 2
\* the bit that holds the pixel at position i of its group
BitAt(i, lsb_first) == IF lsb_first THEN i ELSE 7 - i
\* the byte read from the other end
Reverse8(b) == FoldRange(LAMBDA v, i: v + BitOf(b, i) * (2 ^ (7 - i)), 0, 0, 7)
\* the first n pixels held by the bytes
Unpack(bytes, n, lsb_first) ==
  [j \in 1..n |-> BitOf(bytes[((j - 1) \div 8) + 1], BitAt((j - 1) % 8, lsb_first))]
\* the pixel at position i of group k, white beyond the end of the line
GroupPixel(line, k, i) ==
  IF 8 * (k - 1) + i + 1 <= Len(line) THEN line[8 * (k - 1) + i + 1] ELSE 0

\* C22: pack_line makes one byte of each group of 8 consecutive pixels,
\* ceil(n/8) bytes for n pixels; the pixel at position i of a group is bit i
\* of the byte with lsb_first and bit 7-i otherwise; a short final group is
\* padded with white pixels; the two bit orders give bytes that are
\* bit-reversals of each other; unpacking with the same bit order recovers
\* the line.
C22_PackLine ==
  Done("pack_line") =>
    LET n == Len(inp.line)
        other == pack_line(inp.line, ~inp.lsb_first)
    IN /\ out.kind = "ok"
       /\ 8 * Len(out.bytes) >= n
       /\ 8 * Len(out.bytes) < n + 8
       /\ \A k \in 1..Len(out.bytes) :
            /\ out.bytes[k] \in 0..255
            /\ \A i \in 0..7 :
                 BitOf(out.bytes[k], BitAt(i, inp.lsb_first)) = GroupPixel(inp.line, k, i)
            /\ other[k] = Reverse8(out.bytes[k])
       /\ Len(other) = Len(out.bytes)
       /\ Unpack(out.bytes, n, inp.lsb_first) = inp.line

\* a line of two groups, the second one short and holding a black pixel
C22_Witness ==
  /\ Done("pack_line")
  /\ Len(inp.line) = 9 /\ inp.line[9] = 1 /\ inp.lsb_first
  /\ out.bytes[2] = 1

(***************************************************************************)
(* C26 - rle_encode_line: the entries expand to the line.                  *)
(***************************************************************************)
\* count copies of the colour bit of one entry
ExpandEntry(e) == [j \in 1..(e % 128) |-> e \div 128]
\* the pixels that the entries stand for, in order
Expand(entries) ==
  FoldRange(LAMBDA acc, k: acc \o ExpandEntry(entries[k]), <<>>, 1, Len(entries))
CountSum(entries) ==
  FoldRange(LAMBDA acc, k: acc + (entries[k] % 128), 0, 1, Len(entries))

\* C26: for every non-empty line of 0/1 pixels, expanding the entries of
\* rle_encode_line(line) in order reproduces the line; the counts sum to the
\* length of the line and the final run is emitted, also when it is white
\* and when the whole line is white.
C26_RleLossless ==
  (Done("rle_encode_line") /\ inp.line # <<>>) =>
    /\ out.kind = "ok"
    /\ Expand(out.bytes) = inp.line
    /\ CountSum(out.bytes) = Len(inp.line)
    /\ out.bytes # <<>>
    /\ out.bytes[Len(out.bytes)] \div 128 = inp.line[Len(inp.line)]

\* a black run followed by a white run that needs two entries
C26_Witness ==
  /\ Done("rle_encode_line")
  /\ inp.line = TwoRuns(1, 1, 128)
  /\ out.bytes = <<129, 127, 1>>

(***************************************************************************)
(* C30 - detect_from_device_name: precedence, ties, the registry.          *)
(***************************************************************************)
\* the positions in the catalogue whose non-empty head name is a prefix
HeadHits(models, name) ==
  {i \in 1..Len(models) : models[i].head_name # <<>> /\ PrefixOf(models[i].head_name, name)}
\* the positions whose model number is a prefix
NumberHits(models, name) ==
  {i \in 1..Len(models) : PrefixOf(models[i].model_no, name)}
\* the first position among those of the greatest length
FirstLongest(S, len(_)) ==
  CHOOSE i \in S : \A j \in S : len(j) < len(i) \/ (len(j) = len(i) /\ i <= j)
DetectedAt(models, name) ==
  LET H == HeadHits(models, name)
      N == NumberHits(models, name)
  IN IF H # {} THEN FirstLongest(H, LAMBDA i: Len(models[i].head_name))
     ELSE IF N # {} THEN FirstLongest(N, LAMBDA i: Len(models[i].model_no))
     ELSE 0

C30_Result ==
  (Done("detect_from_device_name") /\ inp.name # <<>>) =>
    LET at == DetectedAt(inp.models, inp.name)
    IN /\ out.value = (IF at = 0 THEN NoModel ELSE FoundModel(inp.models[at]))
       /\ (HeadHits(inp.models, inp.name) # {}) =>
             /\ at \in HeadHits(inp.models, inp.name)
             /\ out.value.model.head_name # <<>>

\* C30: detection is a function of the catalogue order and the name: a
\* head-name prefix match takes precedence over a model-number prefix match,
\* also over a longer one; among matches of equal length the entry that
\* comes first in the catalogue is returned; an entry with an empty head
\* name never matches in the head-name pass; the call leaves the registry
\* as it was.
C30_Deterministic ==
  /\ []C30_Result
  /\ [][DetectFromDeviceName => inp'.models = inp.models]_vars

\* the head name "EM" of the second entry wins over the model number
\* "EMX100" of the first, which has no head name
C30_Witness ==
  /\ Done("detect_from_device_name")
  /\ inp.name = <<"E", "M", "X", "1", "0", "0", "0">>
  /\ Len(inp.models) = 3
  /\ inp.models[1].model_no = <<"E", "M", "X", "1", "0", "0">>
  /\ inp.models[1].head_name = <<>>
  /\ inp.models[2].head_name = <<"e", "m">>
  /\ inp.models[3].head_name = <<"E", "M">>
  /\ out.value = FoundModel(inp.models[2])

(***************************************************************************)
(* C27 - send_data: the paused flag against the inbound stream.            *)
(***************************************************************************)
\* C27: with flow control enabled, after each inbound read the sender is
\* paused exactly when the most recent complete sentinel among the bytes
\* read so far is ON, however the stream was divided into reads: of an ON
\* and an OFF in one read the later decides, and a sentinel split across
\* two reads is recognised.
C27_PausedIffLastOn ==
  Polled => (frame.is_full <=> LastSentinel(Consumed) = "on")

(***************************************************************************)
(* The legacy command line (timiniprint/cli.py): its own looks_like_address*)
(* and select_device, named cli_* here.                                    *)
(***************************************************************************)
\* ":" in value or "-" in value
cli_looks_like_address(value) ==
  \E i \in 1..Len(value) : value[i] = ":" \/ value[i] = "-"

cli_select_device(devices, name_or_address) ==
  IF cli_looks_like_address(name_or_address)
  THEN first_device(devices, {i \in 1..Len(devices) :
                                lower(devices[i].address) = lower(name_or_address)})
  ELSE LET exact == first_device(devices, {i \in 1..Len(devices) :
                                             lower(devices[i].name) = lower(name_or_address)})
       IN IF exact.found THEN exact
          ELSE first_device(devices, {i \in 1..Len(devices) :
                                        contains(lower(devices[i].name), lower(name_or_address))})

cli_resolve_printer_device(models, scan, name_or_address) ==
  LET devices == filter_printer_devices(models, scan)
  IN IF devices = <<>> THEN Raise("RuntimeError", "No supported printers found")
     ELSE IF Truthy(name_or_address)
     THEN LET device == cli_select_device(devices, name_or_address.str)
          IN IF ~device.found THEN Raise("RuntimeError", "No device matches")
             ELSE OkVal(device.device)
     ELSE OkVal(devices[1])

\* advertised names with and without separators
CliDevicePool ==
  {Device(<<"E", "M", "X", "-", "0", "4">>, Mac(<<"A", "E">>, ":", <<"0", "1">>)),
   Device(<<"E", "M", "X", "1">>, Mac(<<"A", "E">>, ":", <<"0", "2">>)),
   Device(<<"e", "m", "x", "1">>, Mac(<<"A", "E">>, ":", <<"0", "3">>)),
   Device(<<"G", "T", ":", "9">>, Mac(<<"A", "E">>, ":", <<"0", "4">>)),
   Device(<<"G", "T", "9">>, Mac(<<"A", "E">>, ":", <<"0", "5">>)),
   Device(<<>>, Mac(<<"A", "E">>, ":", <<"0", "6">>))}
CliScans ==
  {s \in SeqsUpTo(CliDevicePool, MaxScan) :
     \A i, j \in 1..Len(s) : i # j => s[i] # s[j]}
CliHintStrings ==
  {<<"E", "M", "X", "-", "0", "4">>,
   <<"e", "m", "x", "-", "0", "4">>,
   <<"E", "M", "X", "1">>,
   <<"g", "t", ":", "9">>,
   <<"g", "t">>,
   <<"Z", "Z">>,
   Mac(<<"a", "e">>, ":", <<"0", "1">>)}
CliCalls ==
  {[op |-> "cli_select_device", args |-> [devices |-> s, hint |-> h]] :
     s \in CliScans, h \in CliHintStrings}
  \cup
  {[op |-> "cli_resolve_printer_device",
    args |-> [models |-> ResolveModels, scan |-> s, hint |-> h]] :
     s \in CliScans, h \in {None} \cup {Str(x) : x \in CliHintStrings}}

CliSelectDevice ==
  /\ pc = "call" /\ op = "cli_select_device"
  /\ Return(OkVal(cli_select_device(inp.devices, inp.hint)))

CliResolvePrinterDevice ==
  /\ pc = "call" /\ op = "cli_resolve_printer_device"
  /\ Return(cli_resolve_printer_device(inp.models, inp.scan, inp.hint))

InitCli == InitCalls(CliCalls)
NextCli == CliSelectDevice \/ CliResolvePrinterDevice
SpecCli == InitCli /\ [][NextCli]_vars

EqualIgnoringCase(a, b) ==
  Len(a) = Len(b) /\ \A i \in 1..Len(a) : LowerChar(a[i]) = LowerChar(b[i])

\* C28: in the legacy command line, for every device list and every hint
\* that equals, ignoring case, the name of some device of the list,
\* select_device returns a device with that name, also when the name holds
\* a '-' or a ':'.
C28_FoundByName ==
  (/\ Done("cli_select_device")
   /\ \E i \in 1..Len(inp.devices) : EqualIgnoringCase(inp.devices[i].name, inp.hint))
  => /\ out.value.found
     /\ EqualIgnoringCase(out.value.device.name, inp.hint)

(***************************************************************************)
(* Model resolution (timiniprint/device_utils.py, DeviceResolver of the    *)
(* application) and the print paths of the two command lines               *)
(* (timiniprint/app/cli.py and the legacy timiniprint/cli.py).  A print    *)
(* path is a machine: pc is the statement reached, frame holds the model   *)
(* and the log of the calls made so far.  The backend and the file system  *)
(* are the environment: each call of them returns or raises.               *)
(***************************************************************************)
\* PrinterModelRegistry.get: the first entry with exactly this model number
registry_get(models, model_no) ==
  LET hits == {i \in 1..Len(models) : models[i].model_no = model_no}
  IN IF hits = {} THEN NoModel
     ELSE FoundModel(models[CHOOSE i \in hits : \A j \in hits : i <= j])

\* mutant: the first catalogue entry when nothing is detected
resolve_model_first_entry(models, device_name, model_no) ==
  IF Truthy(model_no)
  THEN LET model == registry_get(models, model_no.str)
       IN IF ~model.found THEN Raise("RuntimeError", "Unknown printer model")
          ELSE OkVal(model.model)
  ELSE LET model == detect_from_device_name(models, device_name)
       IN IF model.found THEN OkVal(model.model)
          ELSE IF models # <<>> THEN OkVal(models[1])
          ELSE Raise("RuntimeError", "Printer model not detected from Bluetooth name")

resolve_model(models, device_name, model_no) ==
  IF Truthy(model_no)
  THEN LET model == registry_get(models, model_no.str)
       IN IF ~model.found THEN Raise("RuntimeError", "Unknown printer model")
          ELSE OkVal(model.model)
  ELSE LET model == detect_from_device_name(models, device_name)
       IN IF model.found THEN OkVal(model.model)
          ELSE Raise("RuntimeError", "Printer model not detected from Bluetooth name")

require_model(models, model_no) ==
  IF ~Truthy(model_no)
  THEN Raise("RuntimeError", "Serial printing requires --model")
  ELSE LET model == registry_get(models, model_no.str)
       IN IF ~model.found THEN Raise("RuntimeError", "Unknown printer model")
          ELSE OkVal(model.model)

\* legacy: detect_model raises when nothing is detected
detect_model(models, device_name) ==
  LET model == detect_from_device_name(models, device_name)
  IN IF model.found THEN OkVal(model.model)
     ELSE Raise("RuntimeError", "Printer model not detected from Bluetooth name")

\* legacy: None for no hint
detect_model_from_hint(models, hint) ==
  IF ~Truthy(hint) THEN NoModel ELSE detect_from_device_name(models, hint.str)

\* the statements of each print path up to the model, a being the arguments
\* of the command line and the scan that SppBackend.scan() returns
app_print_bluetooth_model(a) ==
  LET device == resolve_printer_device(a.models, a.scan, a.hint)
  IN IF device.kind # "ok" THEN device
     ELSE resolve_model(a.models, device.value.name, a.model_no)

app_print_serial_model(a) == require_model(a.models, a.model_no)

cli_print_bluetooth_model(a) ==
  LET device == cli_resolve_printer_device(a.models, a.scan, a.hint)
  IN IF device.kind # "ok" THEN device
     ELSE detect_model(a.models, device.value.name)

cli_print_serial_model(a) ==
  LET m1 == detect_model_from_hint(a.models, a.hint)
      m2 == IF m1.found THEN m1 ELSE detect_model_from_hint(a.models, Str(a.port))
  IN IF m2.found THEN OkVal(m2.model)
     ELSE LET device == cli_resolve_printer_device(a.models, a.scan, a.hint)
          IN IF device.kind # "ok" THEN device
             ELSE detect_model(a.models, device.value.name)

BluetoothPaths == {"app_print_bluetooth", "cli_print_bluetooth"}
SerialPaths == {"app_print_serial", "cli_print_serial"}
PrintPaths == BluetoothPaths \cup SerialPaths

path_model(path, a) ==
  CASE path = "app_print_bluetooth" -> app_print_bluetooth_model(a)
    [] path = "app_print_serial" -> app_print_serial_model(a)
    [] path = "cli_print_bluetooth" -> cli_print_bluetooth_model(a)
    [] path = "cli_print_serial" -> cli_print_serial_model(a)

\* one call of the log
Called(what, ok) == [call |-> what, ok |-> ok]
Fail(what) == Raise("RuntimeError", what)

ResolveModel ==
  /\ pc = "call" /\ op = "resolve_model"
  /\ Return(resolve_model(inp.models, inp.device_name, inp.model_no))

RequireModel ==
  /\ pc = "call" /\ op = "require_model"
  /\ Return(require_model(inp.models, inp.model_no))

\* the device and the model are resolved, or the path ends with the error;
\* on the Bluetooth paths the scan itself may raise
PrintResolve ==
  /\ pc = "call" /\ op \in PrintPaths
  /\ UNCHANGED <<op, inp>>
  /\ \/ LET r == path_model(op, inp)
        IN IF r.kind = "ok"
           THEN /\ pc' = "resolved"
                /\ frame' = [model |-> FoundModel(r.value), events |-> <<>>]
                /\ out' = out
           ELSE /\ pc' = "done"
                /\ frame' = [model |-> NoModel, events |-> <<>>]
                /\ out' = r
     \/ /\ op \in BluetoothPaths
        /\ pc' = "done"
        /\ frame' = [model |-> NoModel, events |-> <<>>]
        /\ out' = Fail("scan")

\* data = build_print_data(model, ...): the job is built or reading the
\* file raises
PrintBuildData ==
  /\ pc = "resolved" /\ op \in PrintPaths
  /\ UNCHANGED <<op, inp>>
  /\ \/ /\ pc' = "built"
        /\ frame' = [frame EXCEPT !.events = Append(@, Called("build_print_data", TRUE))]
        /\ out' = out
     \/ /\ pc' = "done"
        /\ frame' = [frame EXCEPT !.events = Append(@, Called("build_print_data", FALSE))]
        /\ out' = Fail("build_print_data")

\* backend = SppBackend(); await backend.connect(device.address)
PrintConnect ==
  /\ pc = "built" /\ op \in BluetoothPaths
  /\ UNCHANGED <<op, inp>>
  /\ \/ /\ pc' = "connected"
        /\ frame' = [frame EXCEPT !.events = Append(@, Called("connect", TRUE))]
        /\ out' = out
     \/ /\ pc' = "done"
        /\ frame' = [frame EXCEPT !.events = Append(@, Called("connect", FALSE))]
        /\ out' = Fail("connect")

\* await backend.write(data, ...): an exception leaves run() at once
PrintWrite ==
  /\ pc = "connected" /\ op \in BluetoothPaths
  /\ UNCHANGED <<op, inp>>
  /\ \/ /\ pc' = "written"
        /\ frame' = [frame EXCEPT !.events = Append(@, Called("write", TRUE))]
        /\ out' = out
     \/ /\ pc' = "done"
        /\ frame' = [frame EXCEPT !.events = Append(@, Called("write", FALSE))]
        /\ out' = Fail("write")

\* await backend.disconnect(); return 0
PrintDisconnect ==
  /\ pc = "written" /\ op \in BluetoothPaths
  /\ UNCHANGED <<op, inp>>
  /\ pc' = "done"
  /\ \/ /\ frame' = [frame EXCEPT !.events = Append(@, Called("disconnect", TRUE))]
        /\ out' = OkVal(0)
     \/ /\ frame' = [frame EXCEPT !.events = Append(@, Called("disconnect", FALSE))]
        /\ out' = Fail("disconnect")

\* the serial paths: one write of the serial transport, which opens and
\* closes the port itself
PrintSerialWrite ==
  /\ pc = "built" /\ op \in SerialPaths
  /\ UNCHANGED <<op, inp>>
  /\ pc' = "done"
  /\ \/ /\ frame' = [frame EXCEPT !.events = Append(@, Called("serial_write", TRUE))]
        /\ out' = OkVal(0)
     \/ /\ frame' = [frame EXCEPT !.events = Append(@, Called("serial_write", FALSE))]
        /\ out' = Fail("serial_write")

\* command lines: a catalogue of three entries, scans with a supported
\* printer, with none, and with none at all
PathScans ==
  {<<>>,
   <<Device(<<"X", "1">>, Mac(<<"A", "E">>, ":", <<"0", "4">>))>>,
   <<Device(<<"E", "M", "X", "1">>, Mac(<<"A", "E">>, ":", <<"0", "2">>))>>,
   <<Device(<<"X", "1">>, Mac(<<"A", "E">>, ":", <<"0", "4">>)),
     Device(<<"G", "T", "9">>, Mac(<<"A", "E">>, ":", <<"0", "5">>))>>}
PathHints == {None, Str(<<"E", "M", "X", "1">>), Str(<<"Z", "Z">>)}
ModelNumbers == {None, Str(<<>>), Str(<<"A", "1">>), Str(<<"a", "1">>), Str(<<"G", "T">>), Str(<<"Z", "Z">>)}
PortNames == {<<"G", "T", "9">>, <<"X", "1">>}
PathNames == {<<>>, <<"E", "M", "X", "1">>, <<"G", "T", "9">>, <<"X", "1">>}
PrintPathCalls ==
  {[op |-> p, args |-> [models |-> ResolveModels, scan |-> s, hint |-> h,
                        model_no |-> n, port |-> t]] :
     p \in PrintPaths, s \in PathScans, h \in PathHints, n \in ModelNumbers, t \in PortNames}
  \cup
  {[op |-> "resolve_model", args |-> [models |-> r, device_name |-> d, model_no |-> n]] :
     r \in ResolveRegistries, d \in PathNames, n \in ModelNumbers}
  \cup
  {[op |-> "require_model", args |-> [models |-> r, model_no |-> n]] :
     r \in ResolveRegistries, n \in ModelNumbers}

InitPrintPath == InitCalls(PrintPathCalls)
NextPrintPath ==
  \/ ResolveModel
  \/ RequireModel
  \/ PrintResolve
  \/ PrintBuildData
  \/ PrintConnect
  \/ PrintWrite
  \/ PrintDisconnect
  \/ PrintSerialWrite
SpecPrintPath == InitPrintPath /\ [][NextPrintPath]_vars

(***************************************************************************)
(* C23 - no print path goes on without a resolved model.                   *)
(***************************************************************************)
InCatalogue(m, models) == \E i \in 1..Len(models) : models[i] = m
GivenNumber(n) == n.given /\ n.str # <<>>
Listed(models, n) == {i \in 1..Len(models) : models[i].model_no = n.str}
\* the model is the one detected from this name
DetectedFrom(m, models, name) ==
  DetectedAt(models, name) # 0 /\ m = models[DetectedAt(models, name)]
\* the names a print path may detect the model from
NamesOf(a) ==
  {a.scan[i].name : i \in 1..Len(a.scan)}
  \cup {a.port}
  \cup (IF a.hint.given THEN {a.hint.str} ELSE {})
\* the model of a running print path is the explicitly given one where the
\* path takes a model number, and else one detected from a name
Justified(path, a, m) ==
  /\ InCatalogue(m, a.models)
  /\ CASE path = "app_print_serial" -> GivenNumber(a.model_no) /\ m.model_no = a.model_no.str
       [] path = "app_print_bluetooth" ->
            IF GivenNumber(a.model_no) THEN m.model_no = a.model_no.str
            ELSE \E i \in 1..Len(a.scan) : DetectedFrom(m, a.models, a.scan[i].name)
       [] OTHER -> \E n \in NamesOf(a) : DetectedFrom(m, a.models, n)

\* C23: resolve_model returns the catalogue entry of an explicitly given
\* model number or else the entry detected from the device name, and raises
\* when the given number is unknown or nothing is detected; require_model
\* raises when no model number is given or it is unknown; in the print
\* paths of the command lines no job is built and nothing is connected or
\* written after such a failure, and a job is only ever built for a model
\* resolved in this way.
C23_NoDefaultModel ==
  /\ Done("resolve_model") =>
       IF GivenNumber(inp.model_no)
       THEN IF Listed(inp.models, inp.model_no) # {}
            THEN /\ out.kind = "ok"
                 /\ InCatalogue(out.value, inp.models)
                 /\ out.value.model_no = inp.model_no.str
            ELSE out.kind = "RuntimeError"
       ELSE IF DetectedAt(inp.models, inp.device_name) # 0
            THEN out = OkVal(inp.models[DetectedAt(inp.models, inp.device_name)])
            ELSE out.kind = "RuntimeError"
  /\ Done("require_model") =>
       IF GivenNumber(inp.model_no) /\ Listed(inp.models, inp.model_no) # {}
       THEN /\ out.kind = "ok"
            /\ InCatalogue(out.value, inp.models)
            /\ out.value.model_no = inp.model_no.str
       ELSE out.kind = "RuntimeError"
  /\ (op \in PrintPaths /\ pc # "call") =>
       /\ frame.events # <<>> =>
            frame.model.found /\ Justified(op, inp, frame.model.model)
       /\ (pc = "done" /\ ~frame.model.found) =>
            frame.events = <<>> /\ out.kind = "RuntimeError"

\* a supported printer was found, the model number given is unknown: the
\* path has ended with the error and nothing was built or connected
C23_Witness ==
  /\ Done("app_print_bluetooth")
  /\ inp.model_no = Str(<<"Z", "Z">>)
  /\ inp.hint = None
  /\ Len(inp.scan) = 1 /\ inp.scan[1].name = <<"E", "M", "X", "1">>
  /\ out.kind = "RuntimeError" /\ out.msg = "Unknown printer model"
  /\ frame.events = <<>>

(***************************************************************************)
(* C24 - the Bluetooth print path: connect, write, disconnect.             *)
(***************************************************************************)
\* the backend calls made so far, in order
BackendCalls ==
  SelectSeq(frame.events, LAMBDA e : e.call \in {"connect", "write", "disconnect"})
CallMade(what) == \E i \in 1..Len(frame.events) : frame.events[i].call = what
CallFailed == \E i \in 1..Len(frame.events) : ~frame.events[i].ok
ConnectSucceeded ==
  \E i \in 1..Len(frame.events) : frame.events[i] = Called("connect", TRUE)

\* C24: on the Bluetooth print path the backend calls are made in the order
\* connect, write, disconnect; whenever the invocation ends after connect
\* succeeded, also when write raised, disconnect has been called on the
\* backend, and a failure of any step is surfaced to the caller.
C24_DisconnectedAtEnd ==
  (op \in BluetoothPaths /\ pc # "call") =>
    /\ \A i \in 1..Len(BackendCalls) :
         BackendCalls[i].call = <<"connect", "write", "disconnect">>[i]
    /\ (pc = "done" /\ ConnectSucceeded) => CallMade("disconnect")
    /\ (pc = "done" /\ CallFailed) => out.kind # "ok"

(***************************************************************************)
(* Discovery strategies (timiniprint/transport/bluetooth/scan.py and       *)
(* winrt.py).  The tools and libraries are the environment: env says       *)
(* whether the tool or library is there and how each call of it ends, and  *)
(* found is the list of devices it reports.                                *)
(***************************************************************************)
\* scan.py 11-46: no tool, or either subprocess.run raising, gives []
scan_bluetoothctl(env) ==
  IF ~env.present THEN OkVal(<<>>)
  ELSE IF env.scan_on = "raises" THEN OkVal(<<>>)
  ELSE IF env.list = "raises" THEN OkVal(<<>>)
  ELSE OkVal(dedupe_devices(env.found))

\* scan.py 49-67: no library, or asyncio.run(run()) raising, gives []
scan_bleak(env) ==
  IF ~env.present THEN OkVal(<<>>)
  ELSE IF env.discover # "ok" THEN OkVal(<<>>)
  ELSE OkVal(dedupe_devices(env.found))

\* winrt.py 24-32: the import, or RuntimeError
winrt_imports(env) ==
  IF env.present THEN OkVal(TRUE)
  ELSE Raise("RuntimeError", "WinRT Bluetooth support on Windows requires the 'winsdk' package")

\* winrt.py 54-84: nothing is caught but the TypeError of the first
\* find_all_async signature
scan_winrt_async(env) ==
  LET imports == winrt_imports(env)
  IN IF imports.kind # "ok" THEN imports
     ELSE IF env.find_all = "timeout" THEN Raise("TimeoutError", "")
     ELSE IF env.find_all = "raises" THEN Raise("OSError", "find_all_async")
     ELSE IF env.from_id = "raises" THEN Raise("OSError", "from_id_async")
     ELSE OkVal(dedupe_devices(env.found))

\* winrt.py 35-44 and 87-88: _run_winrt closes its loop and lets the
\* exception of the coroutine through
scan_winrt(env) == scan_winrt_async(env)

Outcomes == {"ok", "raises"}
FoundLists == {s \in RawScans : Len(s) <= 2 /\ \A i \in 1..Len(s) : s[i].name # <<>>}
DiscoverCalls ==
  {[op |-> "_scan_bluetoothctl",
    args |-> [present |-> p, scan_on |-> a, list |-> b, found |-> f]] :
     p \in BOOLEAN, a \in Outcomes, b \in Outcomes, f \in FoundLists}
  \cup
  {[op |-> "_scan_bleak", args |-> [present |-> p, discover |-> a, found |-> f]] :
     p \in BOOLEAN, a \in Outcomes \cup {"timeout"}, f \in FoundLists}
  \cup
  {[op |-> "_scan_winrt",
    args |-> [present |-> p, find_all |-> a, from_id |-> b, found |-> f]] :
     p \in BOOLEAN, a \in Outcomes \cup {"timeout"}, b \in Outcomes, f \in FoundLists}

ScanBluetoothctl ==
  /\ pc = "call" /\ op = "_scan_bluetoothctl"
  /\ Return(scan_bluetoothctl(inp))

ScanBleak ==
  /\ pc = "call" /\ op = "_scan_bleak"
  /\ Return(scan_bleak(inp))

ScanWinrt ==
  /\ pc = "call" /\ op = "_scan_winrt"
  /\ Return(scan_winrt(inp))

InitDiscover == InitCalls(DiscoverCalls)
NextDiscover == ScanBluetoothctl \/ ScanBleak \/ ScanWinrt
SpecDiscover == InitDiscover /\ [][NextDiscover]_vars

\* something went wrong inside the strategy
StrategyFailed ==
  \/ ~inp.present
  \/ op = "_scan_bluetoothctl" /\ (inp.scan_on # "ok" \/ inp.list # "ok")
  \/ op = "_scan_bleak" /\ inp.discover # "ok"
  \/ op = "_scan_winrt" /\ (inp.find_all # "ok" \/ inp.from_id # "ok")

\* C25: a failure inside one discovery strategy (missing tool or library,
\* subprocess error, scan exception, scan timeout) does not leave the
\* strategy as an exception: the strategy returns an empty result.  This
\* holds for the bluetoothctl, the bleak and the WinRT strategy.
C25_FailureSwallowed ==
  (pc = "done" /\ op \in {"_scan_bluetoothctl", "_scan_bleak", "_scan_winrt"} /\ StrategyFailed)
    => out.kind = "ok" /\ out.value = <<>>

(***************************************************************************)
(* _WinRtSocket (timiniprint/transport/bluetooth/winrt.py).  frame is the  *)
(* object: loop says whether _loop is set, socket and writer are 0 for     *)
(* None and else the number of the StreamSocket made by connect (a writer  *)
(* carries the number of the socket whose output stream it wraps).  handed *)
(* counts the write_bytes calls, live says that a connect has succeeded    *)
(* and no close has been called since, calls and last are the number of    *)
(* method calls made and the name of the last one.  The WinRT objects are  *)
(* the environment: each awaited call returns or raises.                   *)
(***************************************************************************)
MaxOps == 5

\* __init__
WinRtSocket_new ==
  [loop |-> FALSE, socket |-> 0, writer |-> 0, made |-> 0, handed |-> 0,
   live |-> FALSE, calls |-> 0, last |-> "__init__"]

\* _run: the loop is made on first use
winrt_run(self) == [self EXCEPT !.loop = TRUE]

\* connect, by how far it gets
winrt_connect(self, outcome) ==
  LET s1 == winrt_run(self)
      s2 == [s1 EXCEPT !.socket = self.made + 1, !.made = self.made + 1]
  IN CASE outcome = "resolve_raises" ->
            [self |-> s1, result |-> Raise("OSError", "resolve_service_async")]
       [] outcome = "no_service" ->
            [self |-> s1, result |-> Raise("RuntimeError", "Bluetooth SPP service not found for device")]
       [] outcome = "import_fails" ->
            [self |-> s1, result |-> Raise("RuntimeError", "WinRT Bluetooth support on Windows requires the 'winsdk' package")]
       [] outcome = "connect_raises" ->
            [self |-> s2, result |-> Raise("OSError", "connect_async")]
       [] OTHER ->
            [self |-> [s2 EXCEPT !.writer = s2.socket, !.live = TRUE], result |-> OkVal(0)]

\* sendall: the guard, then write_bytes, store_async, flush_async
winrt_sendall(self, outcome) ==
  IF self.writer = 0
  THEN [self |-> self, result |-> Raise("RuntimeError", "Not connected to a Bluetooth SPP device")]
  ELSE LET s1 == winrt_run([self EXCEPT !.handed = self.handed + 1])
       IN IF outcome = "ok" THEN [self |-> s1, result |-> OkVal(0)]
          ELSE [self |-> s1, result |-> Raise("OSError", outcome)]

\* mutant: close without `self._writer = None`
winrt_close_keeps_writer(self) ==
  [self |-> [self EXCEPT !.socket = 0, !.loop = FALSE, !.live = FALSE],
   result |-> OkVal(0)]

\* close: each reference that is set is closed and cleared
winrt_close(self) ==
  [self |-> [self EXCEPT !.writer = 0, !.socket = 0, !.loop = FALSE, !.live = FALSE],
   result |-> OkVal(0)]

ConnectOutcomes == {"resolve_raises", "no_service", "import_fails", "connect_raises", "ok"}
SendOutcomes == {"ok", "store_raises", "flush_raises"}
SocketCalls == {[op |-> "_WinRtSocket", args |-> [adapter |-> "adapter"]]}

\* the effect of one method call on the object and the result of the call
MethodCall(name, r) ==
  /\ pc' = "ready"
  /\ frame' = [r.self EXCEPT !.calls = frame.calls + 1, !.last = name]
  /\ out' = r.result
  /\ UNCHANGED <<op, inp>>

WinRtSocketInit ==
  /\ pc = "call" /\ op = "_WinRtSocket"
  /\ pc' = "ready"
  /\ frame' = WinRtSocket_new
  /\ UNCHANGED <<op, inp, out>>

WinRtSocketConnect ==
  /\ pc = "ready" /\ op = "_WinRtSocket" /\ frame.calls < MaxOps
  /\ \E outcome \in ConnectOutcomes : MethodCall("connect", winrt_connect(frame, outcome))

WinRtSocketSendall ==
  /\ pc = "ready" /\ op = "_WinRtSocket" /\ frame.calls < MaxOps
  /\ \E outcome \in SendOutcomes : MethodCall("sendall", winrt_sendall(frame, outcome))

WinRtSocketClose ==
  /\ pc = "ready" /\ op = "_WinRtSocket" /\ frame.calls < MaxOps
  /\ MethodCall("close", winrt_close(frame))

InitSocket == InitCalls(SocketCalls)
NextSocket ==
  \/ WinRtSocketInit
  \/ WinRtSocketConnect
  \/ WinRtSocketSendall
  \/ WinRtSocketClose
SpecSocket == InitSocket /\ [][NextSocket]_vars

\* a step that is a call of this method
IsCall(name) ==
  /\ pc = "ready" /\ op = "_WinRtSocket"
  /\ frame'.calls = frame.calls + 1 /\ frame'.last = name

====
